---- MODULE Spec2Model ----
(***************************************************************************)
(* BodyVision: the application shell (BodyVisionApp.run), its layout       *)
(* arithmetic and the pose evaluators of PoseDetector.                     *)
(*                                                                         *)
(* Spec           the main loop of BodyVisionApp.run as a state machine    *)
(* SpecLetterbox  the letterbox arithmetic of run() applied to bounded     *)
(*                frame and viewport sizes                                 *)
(* SpecDoubleBiceps  evaluate_double_biceps applied to bounded inputs      *)
(* SpecPure       calculate_angle, evaluate_centered,                      *)
(*                evaluate_most_muscular, evaluate_back_double_biceps,     *)
(*                _evaluate_pose, process_frame, render_pose_skeleton      *)
(*                and render_sidebar_menu applied to bounded inputs        *)
(* SpecFeedback   the line wrap and the colours of render_feedback_panel,  *)
(*                one pass of its loop at a time                           *)
(* SpecFont       the font cache of text_renderer under any sequence of    *)
(*                calls of its drawing and measuring functions             *)
(***************************************************************************)
EXTENDS Integers, Sequences, FiniteSets, TLC

VARIABLES
    pc,                 \* position of run(): which statement executes next
    cap,                \* self.cap: "None", "unopened" or "opened" handle
    frame_error_count,  \* local frame_error_count of run()
    pose_mode,          \* self.pose_mode
    fullscreen,         \* WND_PROP_FULLSCREEN of the window
    key,                \* local key: last value of cv2.waitKey(1) & 0xFF
    calls,              \* how often each external call was made (capped)
    exit_reason,        \* which statement left the while loop
    fails_since_ok,     \* history: failed reads since the last good read
    fails_before,       \* history: frame_error_count before the last read
    last_read,          \* history: outcome of the last cap.read()
    mode_before,        \* history: pose_mode before the last key poll
    frame,              \* shape <<frame_w, frame_h>> of the frame last read
    layout,             \* window, sidebar, viewport and letterbox sizes
    detection,          \* pose estimation of the frame in hand
    pose_quality,       \* local pose_quality of run(): the verdict or None
    drawn,              \* what was drawn on and done with the frame in hand
    frame_mode,         \* the pose_mode argument of process_frame for it
    selected,           \* the sidebar entries drawn as selected on it
    _font_cache,        \* text_renderer._font_cache: (path, size) -> font
    _cached_font_path,  \* text_renderer._cached_font_path
    font_loads,         \* history: how often a font was loaded for a key
    text_call,          \* history: key and font of the last text call
    fn_in,              \* pure-function specifications: the arguments
    fn_out              \* pure-function specifications: the result

appVars == <<pc, cap, frame_error_count, pose_mode, fullscreen, key, calls,
             exit_reason, fails_since_ok, fails_before, last_read,
             mode_before>>
geomVars == <<frame, layout>>
fnVars == <<fn_in, fn_out>>
poseVars == <<detection, pose_quality, drawn, frame_mode, selected>>
fontVars == <<_font_cache, _cached_font_path, font_loads, text_call>>
vars == <<pc, cap, frame_error_count, pose_mode, fullscreen, key, calls,
          exit_reason, fails_since_ok, fails_before, last_read,
          mode_before, frame, layout, fn_in, fn_out, detection, pose_quality,
          drawn, frame_mode, selected, _font_cache, _cached_font_path,
          font_loads, text_call>>

----------------------------------------------------------------------------
(* Program constants *)

max_frame_errors == 10

KEY_ESC == 27
KEY_1 == 49
KEY_2 == 50
KEY_3 == 51
KEY_4 == 52
KEY_5 == 53
KEY_F == 70
KEY_Q == 81
KEY_a == 97
KEY_f == 102
KEY_q == 113
NO_KEY == 255

\* The five Pose Modes (keys of MODE_NAMES).
MODE_NAMES ==
    {"enquadramento", "double_biceps", "back_double_biceps", "side_chest",
     "most_muscular"}

\* Values cv2.waitKey(1) can return: -1 when no key was pressed, the key
\* code, or the key code with modifier bits above the low byte.
RawKeys ==
    {-1, KEY_ESC, KEY_1, KEY_2, KEY_3, KEY_4, KEY_5, KEY_F, KEY_Q, KEY_a,
     KEY_f, KEY_q, 1048576 + KEY_1}

\* key = cv2.waitKey(1) & 0xFF
MaskKey(raw) == raw % 256

\* Results of find_camera() as run() tells them apart.
CameraResults == {"None", "unopened", "opened"}

\* Outcomes of self.cap.read(): (ret, frame).
ReadResults == {"ok", "ret_false", "frame_none"}

\* Mutant: only ret = False counts as a failed read.
ReadFailedRetOnly(r) == r = "ret_false"

\* if not ret or frame is None
ReadFailed(r) == r \in {"ret_false", "frame_none"}

\* frame.shape[:2] of a frame the camera delivers, as <<frame_w, frame_h>>.
FrameShapes == {<<640, 480>>, <<1280, 720>>}

\* No frame: cap.read() failed or has not been called.
NoFrame == <<0, 0>>

\* window_rect[2], window_rect[3] of cv2.getWindowImageRect: no rectangle,
\* a window narrower than the sidebar, a window and the full screen.
WindowRects == {<<-1, -1>>, <<280, 200>>, <<1280, 720>>, <<1920, 1080>>}

----------------------------------------------------------------------------
(* Bounds *)

\* External calls are counted up to this number.
CallCap == 2

Effects ==
    {"read", "namedWindow", "imshow", "release", "destroyAllWindows",
     "guidance"}

Bump(c, e) == [c EXCEPT ![e] = IF @ < CallCap THEN @ + 1 ELSE @]

----------------------------------------------------------------------------
(* Python float arithmetic on small integers.  run() computes
   camera_aspect = frame_w / frame_h as an IEEE-754 double and then truncates
   a product or a quotient with int().  For operands far below 2^26 the
   result is decided by integer arithmetic: it is the truncated exact value
   unless the exact value is an integer and the rounding of the ratio pushes
   the double below that integer. *)

RECURSIVE Pow2(_)
Pow2(k) == IF k <= 0 THEN 1 ELSE 2 * Pow2(k - 1)

\* floor(log2(num / den)) for num, den > 0: the exponent of the double.
RECURSIVE Log2Floor(_, _)
Log2Floor(num, den) ==
    IF num >= den
       THEN IF num >= 2 * den THEN 1 + Log2Floor(num, 2 * den) ELSE 0
       ELSE Log2Floor(2 * num, den) - 1

\* 2^s mod m for m < 2^15, by squaring
RECURSIVE PowMod2(_, _)
PowMod2(s, m) ==
    IF s <= 0 THEN 1 % m
    ELSE IF s % 2 = 0 THEN (PowMod2(s \div 2, m) * PowMod2(s \div 2, m)) % m
    ELSE (2 * PowMod2(s - 1, m)) % m

\* The double nearest to n/d has a 53-bit significand M with
\* M * d = n * 2^s - FloatErr(n, d), where s = 52 - Log2Floor(n, d):
\* positive when the ratio was rounded down, negative when rounded up.
FloatErr(n, d) ==
    LET s == 52 - Log2Floor(n, d)
        rho == ((n % d) * PowMod2(s, d)) % d
    IN  IF 2 * rho < d THEN rho ELSE rho - d

\* x is a power of two (its predecessor double is half an ulp closer).
IsPow2(x) == x = Pow2(Log2Floor(x, 1))

\* int(c * (n / d)) for c >= 0, n, d > 0
FloatMulTruncNat(c, n, d) ==
    LET X == (c * n) \div d
        e == FloatErr(n, d)
        E == Log2Floor(n, d)
        L == Log2Floor(X, 1)
        k == IF IsPow2(X) THEN 4 ELSE 2
    IN  IF (c * n) % d # 0 \/ X = 0 \/ e <= 0
           THEN X
           ELSE IF k * c * e * Pow2(E - L) <= d * Pow2(L - E)
                   THEN X
                   ELSE X - 1

\* int(c / (n / d)) for c >= 0, n, d > 0
FloatDivTruncNat(c, n, d) ==
    LET Y == (c * d) \div n
        e == FloatErr(n, d)
        E == Log2Floor(n, d)
        L == Log2Floor(Y, 1)
        k == IF IsPow2(Y) THEN 4 ELSE 2
    IN  IF (c * d) % n # 0 \/ Y = 0 \/ e >= 0
           THEN Y
           ELSE IF k * Y * (0 - e) * Pow2(E - L) <= n * Pow2(L - E)
                   THEN Y
                   ELSE Y - 1

\* int() truncates toward zero; the sign of c carries over.
FloatMulTrunc(c, n, d) ==
    IF c >= 0 THEN FloatMulTruncNat(c, n, d)
              ELSE 0 - FloatMulTruncNat(0 - c, n, d)

FloatDivTrunc(c, n, d) ==
    IF c >= 0 THEN FloatDivTruncNat(c, n, d)
              ELSE 0 - FloatDivTruncNat(0 - c, n, d)

\* i < c * (n / d) for integers i, c >= 0 and n, d > 0.  When c * n / d is
\* not an integer the double product lies on the same side of every integer
\* as the exact value; when it is an integer X the product is X, or the
\* double above X if the ratio was rounded up far enough.
IntLtFloatMul(i, c, n, d) ==
    LET X == (c * n) \div d
        e == FloatErr(n, d)
        E == Log2Floor(n, d)
        L == Log2Floor(X, 1)
    IN  IF c = 0 THEN i < 0
        ELSE IF (c * n) % d # 0 THEN i * d < c * n
        ELSE \/ i < X
             \/ /\ i = X
                /\ e < 0
                /\ 2 * c * (0 - e) * Pow2(E - L) > d * Pow2(L - E)

Abs(x) == IF x < 0 THEN 0 - x ELSE x

Min(a, b) == IF a < b THEN a ELSE b
Max(a, b) == IF a > b THEN a ELSE b

----------------------------------------------------------------------------
(* The letterbox size of run() *)

\* x / y if y > 0 else 16/9, kept as the pair <<numerator, denominator>>
Aspect(x, y) == IF y > 0 THEN <<x, y>> ELSE <<16, 9>>

\* Mutant: the comparison of the aspects is reversed.
AspectLess(a, b) == a[1] * b[2] < b[1] * a[2]

\* if camera_aspect > display_aspect: both are correctly rounded ratios of
\* small integers, so the doubles compare as the ratios do.
AspectGreater(a, b) == a[1] * b[2] > b[1] * a[2]

\* new_width, new_height of run() for a frame of frame_w x frame_h and a
\* camera viewport of camera_display_width x camera_display_height.
Letterbox(frame_w, frame_h, camera_display_width, camera_display_height) ==
    LET camera_aspect == Aspect(frame_w, frame_h)
        display_aspect == Aspect(camera_display_width, camera_display_height)
        wide == AspectGreater(camera_aspect, display_aspect)
        w0 == IF wide
                 THEN camera_display_width
                 ELSE FloatMulTrunc(camera_display_height,
                                    camera_aspect[1], camera_aspect[2])
        h0 == IF wide
                 THEN FloatDivTrunc(camera_display_width,
                                    camera_aspect[1], camera_aspect[2])
                 ELSE camera_display_height
    IN  [new_width |-> Min(w0, camera_display_width),
         new_height |-> Min(h0, camera_display_height)]

----------------------------------------------------------------------------
(* Joints, landmarks and verdicts of process_frame *)

\* The 12 joints in the order in which process_frame reads them.
JointOrder ==
    <<"LEFT_SHOULDER", "LEFT_ELBOW", "LEFT_WRIST",
      "RIGHT_SHOULDER", "RIGHT_ELBOW", "RIGHT_WRIST",
      "LEFT_HIP", "RIGHT_HIP", "LEFT_KNEE", "RIGHT_KNEE",
      "LEFT_ANKLE", "RIGHT_ANKLE">>

Joints == {JointOrder[i] : i \in 1..Len(JointOrder)}

\* pose_quality = None: no verdict.
None == [head |-> "", reasons |-> <<>>, tail |-> ""]

\* The landmarks of a front double biceps stance, in eighths of the frame:
\* elbows above the shoulders, forearms bent inwards, straight legs.
Stance ==
    ("LEFT_SHOULDER" :> <<5, 3>>) @@ ("LEFT_ELBOW" :> <<7, 2>>)
      @@ ("LEFT_WRIST" :> <<6, 1>>) @@ ("RIGHT_SHOULDER" :> <<3, 3>>)
      @@ ("RIGHT_ELBOW" :> <<1, 2>>) @@ ("RIGHT_WRIST" :> <<2, 1>>)
      @@ ("LEFT_HIP" :> <<5, 6>>) @@ ("RIGHT_HIP" :> <<3, 6>>)
      @@ ("LEFT_KNEE" :> <<5, 7>>) @@ ("RIGHT_KNEE" :> <<3, 7>>)
      @@ ("LEFT_ANKLE" :> <<5, 8>>) @@ ("RIGHT_ANKLE" :> <<3, 8>>)

\* results of pose.process without a pose: results.pose_landmarks is None.
\* The landmarks 'at' are not read then.
NoLandmarks == [detected |-> FALSE, readable |-> {}, at |-> Stance]

----------------------------------------------------------------------------
(* text_renderer: the font cache.  A text is the sequence of its characters;
   a font object is told from any other by the key it was loaded for and
   by the how-manieth load for that key it is. *)

\* None as a font path
NoPath == "None"

\* font_paths of get_font_path, in order
font_paths ==
    <<"/System/Library/Fonts/Helvetica.ttc",
      "/System/Library/Fonts/Arial.ttf",
      "/Library/Fonts/Arial.ttf",
      "/usr/share/fonts/truetype/dejavu/DejaVuSans.ttf",
      "/usr/share/fonts/truetype/liberation/LiberationSans-Regular.ttf",
      "C:/Windows/Fonts/arial.ttf",
      "C:/Windows/Fonts/calibri.ttf">>

\* A font file a caller names in the font_path argument.
CustomFont == "/opt/fonts/Custom.ttf"

\* The files os.path.exists finds at the time of a call: none, a Linux
\* system with the caller's font, a system with two of the listed fonts.
FileSystems ==
    { {},
      {font_paths[4], CustomFont},
      {font_paths[1], font_paths[4]} }

\* The characters of the class in _has_accent
AccentedChars ==
    {"à", "á", "â", "ã", "ä", "è", "é", "ê", "ë", "ì", "í", "î", "ï", "ò",
     "ó", "ô", "õ", "ö", "ù", "ú", "û", "ü", "À", "Á", "Â", "Ã", "Ä", "È",
     "É", "Ê", "Ë", "Ì", "Í", "Î", "Ï", "Ò", "Ó", "Ô", "Õ", "Ö", "Ù", "Ú",
     "Û", "Ü", "ç", "Ç"}

\* bool(re.search(r'[...]', text))
_has_accent(text) == \E i \in 1..Len(text) : text[i] \in AccentedChars

\* Texts drawn by the panels: "FPS" and "Bíceps"
PanelTexts ==
    {<<"F", "P", "S">>, <<"B", "í", "c", "e", "p", "s">>}

\* font_scale in tenths: 0.2, 0.8
FontScales == {2, 8}

\* base_font_size = max(10, int(font_scale * 30)) for font_scale = n / 10
BaseFontSize(n) == Max(10, FloatMulTrunc(30, n, 10))

\* The cache keys (font_path, font_size) of the calls
FontKeys ==
    ({NoPath, CustomFont} \cup {font_paths[i] : i \in 1..Len(font_paths)})
        \X {BaseFontSize(n) : n \in FontScales}

\* _font_cache = {}
NoFonts == [k \in {} |-> 0]

\* A call that took the cv2 path: no key and no font
NoTextCall ==
    [fn |-> "none", key |-> <<NoPath, 0>>,
     font |-> [key |-> <<NoPath, 0>>, kind |-> "none", load |-> 0]]

\* get_font_path(): the memoized path, else the first listed path that
\* exists, which is memoized, else None
FirstFound(present) ==
    IF \E i \in 1..Len(font_paths) : font_paths[i] \in present
       THEN font_paths[CHOOSE i \in 1..Len(font_paths) :
                           /\ font_paths[i] \in present
                           /\ \A j \in 1..(i - 1) :
                                 font_paths[j] \notin present]
       ELSE NoPath

get_font_path(memo, present) ==
    IF memo # NoPath THEN memo ELSE FirstFound(present)

\* Mutant: the cache is never hit.
CacheHitNever(cache_key, cache) == FALSE

\* if cache_key in _font_cache
CacheHit(cache_key, cache) == cache_key \in DOMAIN cache

\* The font the try block gives: ImageFont.truetype of an existing file
\* (index 0 of a .ttc collection), the default font for no or a missing
\* file and when truetype raises.
LoadFont(path, present, raises) ==
    IF path # NoPath /\ path \in present /\ ~raises
       THEN (IF path = font_paths[1] THEN "collection" ELSE "truetype")
       ELSE "default"

\* _get_cached_font(font_size, font_path) on the state st = [cache, memo,
\* loads]: the font returned and the state after the call.
_get_cached_font(st, font_size, font_path, present, raises) ==
    LET path == IF font_path = NoPath
                   THEN get_font_path(st.memo, present)
                   ELSE font_path
        memo == IF font_path = NoPath THEN path ELSE st.memo
        cache_key == <<path, font_size>>
        loads == [st.loads EXCEPT
                     ![cache_key] = IF @ < CallCap THEN @ + 1 ELSE @]
        font == [key |-> cache_key,
                 kind |-> LoadFont(path, present, raises),
                 load |-> loads[cache_key]]
    IN  IF CacheHit(cache_key, st.cache)
           THEN [font |-> st.cache[cache_key], key |-> cache_key,
                 cache |-> st.cache, memo |-> memo, loads |-> st.loads]
           ELSE [font |-> font, key |-> cache_key,
                 cache |-> [k \in DOMAIN st.cache \cup {cache_key} |->
                               IF k = cache_key THEN font ELSE st.cache[k]],
                 memo |-> memo, loads |-> loads]

\* The module state as the argument of _get_cached_font
FontState ==
    [cache |-> _font_cache, memo |-> _cached_font_path,
     loads |-> font_loads]

\* The module state after a call that went through _get_cached_font
FontCall(fn, r) ==
    /\ _font_cache' = r.cache
    /\ _cached_font_path' = r.memo
    /\ font_loads' = r.loads
    /\ text_call' = [fn |-> fn, key |-> r.key, font |-> r.font]

\* The module state after a call that took the cv2 path
Cv2Call(fn) ==
    /\ text_call' = [NoTextCall EXCEPT !.fn = fn]
    /\ UNCHANGED <<_font_cache, _cached_font_path, font_loads>>

\* put_text_utf8(img, text, position, font_scale, color, thickness,
\* font_path): cv2.putText unless the text has an accent
put_text_utf8 ==
    /\ \E text \in PanelTexts, n \in FontScales,
          font_path \in {NoPath, CustomFont}, present \in FileSystems,
          raises \in BOOLEAN :
          IF ~_has_accent(text)
             THEN Cv2Call("put_text_utf8")
             ELSE FontCall("put_text_utf8",
                           _get_cached_font(FontState, BaseFontSize(n),
                                            font_path, present, raises))
    /\ UNCHANGED <<appVars, geomVars, fnVars, poseVars>>

\* get_text_size_utf8(text, font_scale, font_path)
get_text_size_utf8 ==
    /\ \E text \in PanelTexts, n \in FontScales,
          font_path \in {NoPath, CustomFont}, present \in FileSystems,
          raises \in BOOLEAN :
          IF ~_has_accent(text)
             THEN Cv2Call("get_text_size_utf8")
             ELSE FontCall("get_text_size_utf8",
                           _get_cached_font(FontState, BaseFontSize(n),
                                            font_path, present, raises))
    /\ UNCHANGED <<appVars, geomVars, fnVars, poseVars>>

\* put_text_with_shadow: put_text_utf8 for the shadow, then for the text
put_text_with_shadow ==
    /\ \E text \in PanelTexts, n \in FontScales,
          font_path \in {NoPath, CustomFont}, present \in FileSystems,
          raises \in BOOLEAN :
          IF ~_has_accent(text)
             THEN Cv2Call("put_text_with_shadow")
             ELSE LET shadow ==
                          _get_cached_font(FontState, BaseFontSize(n),
                                           font_path, present, raises)
                  IN  FontCall("put_text_with_shadow",
                               _get_cached_font(shadow, BaseFontSize(n),
                                                font_path, present, raises))
    /\ UNCHANGED <<appVars, geomVars, fnVars, poseVars>>

NextFont ==
    \/ put_text_utf8
    \/ get_text_size_utf8
    \/ put_text_with_shadow

----------------------------------------------------------------------------
(* BodyVisionApp.__init__ *)

FnIdle == fn_in = [fn |-> "none"] /\ fn_out = [done |-> FALSE]

NoLayout ==
    [window_width |-> 0, window_height |-> 0, sidebar_width |-> 0,
     camera_display_width |-> 0, camera_display_height |-> 0,
     new_width |-> 0, new_height |-> 0]

AppInit ==
    /\ pc = "start"
    /\ cap = "None"
    /\ frame_error_count = 0
    /\ pose_mode = "enquadramento"
    /\ fullscreen = FALSE
    /\ key = NO_KEY
    /\ calls = [e \in Effects |-> 0]
    /\ exit_reason = "none"
    /\ fails_since_ok = 0
    /\ fails_before = 0
    /\ last_read = "none"
    /\ mode_before = "enquadramento"
    /\ frame = NoFrame
    /\ layout = NoLayout
    /\ detection = NoLandmarks
    /\ pose_quality = None
    /\ drawn = {}
    /\ frame_mode = ""
    /\ selected = {}
    /\ _font_cache = NoFonts
    /\ _cached_font_path = NoPath
    /\ font_loads = [k \in FontKeys |-> 0]
    /\ text_call = NoTextCall

Init == AppInit /\ FnIdle

\* text_renderer as imported: no font cached, no path found; then any
\* sequence of calls of its three functions.
InitFont == AppInit /\ FnIdle

SpecFont == InitFont /\ [][NextFont]_vars

----------------------------------------------------------------------------
(* PoseDetector.evaluate_double_biceps *)

\* Angles are counted in units of 1/AngleScale degree, so that 29.9 and
\* 80.1 degrees are values of the model.
AngleScale == 10

Deg(d) == d * AngleScale

\* Mutant: the range of the earlier evaluator, 45 to 80 degrees.
ArmAngleInRange45(angle) == Deg(45) <= angle /\ angle <= Deg(80)

\* 30 <= angle <= 80
ArmAngleInRange(angle) == Deg(30) <= angle /\ angle <= Deg(80)

\* "Posicao incorreta - " + "; ".join(errors) + "."
Incorrect(errors) ==
    [head |-> "Posicao incorreta - ", reasons |-> errors, tail |-> "."]

\* The praise returned when errors is empty.
Correct(praise) == [head |-> praise, reasons |-> <<>>, tail |-> ""]

\* errors.append(reason) under the condition cond
AppendIf(errors, cond, reason) ==
    IF cond THEN Append(errors, reason) ELSE errors

evaluate_double_biceps(left_angle, right_angle, left_elbow_height, right_elbow_height, left_shoulder_height, right_shoulder_height) ==
    LET e1 == AppendIf(<<>>, left_elbow_height > left_shoulder_height,
                       "Cotovelo esquerdo muito baixo")
        e2 == AppendIf(e1, right_elbow_height > right_shoulder_height,
                       "Cotovelo direito muito baixo")
        e3 == AppendIf(e2, ~ArmAngleInRange(left_angle),
              "Angulo do braco esquerdo fora do intervalo (30-80 graus)")
        e4 == AppendIf(e3, ~ArmAngleInRange(right_angle),
              "Angulo do braco direito fora do intervalo (30-80 graus)")
    IN  IF e4 # <<>>
           THEN Incorrect(e4)
           ELSE Correct("Posicao correta - Excelente postura!")

\* Largest pixel height of an elbow or a shoulder.
MaxY == 2

\* Arm angles: 0, just below 30, 30, 55, 80, just above 80, 180 degrees.
ArmAngles ==
    {0, Deg(30) - 1, Deg(30), Deg(55), Deg(80), Deg(80) + 1, Deg(180)}

InitDoubleBiceps ==
    /\ AppInit
    /\ fn_in \in [fn : {"evaluate_double_biceps"},
                  left_angle : ArmAngles, right_angle : ArmAngles,
                  left_elbow_height : 0..MaxY, right_elbow_height : 0..MaxY,
                  left_shoulder_height : 0..MaxY,
                  right_shoulder_height : 0..MaxY]
    /\ fn_out = [done |-> FALSE]

ApplyDoubleBiceps ==
    /\ fn_in.fn = "evaluate_double_biceps"
    /\ ~fn_out.done
    /\ fn_out' = [done |-> TRUE,
                  verdict |-> evaluate_double_biceps(
                      fn_in.left_angle, fn_in.right_angle,
                      fn_in.left_elbow_height, fn_in.right_elbow_height,
                      fn_in.left_shoulder_height,
                      fn_in.right_shoulder_height)]
    /\ UNCHANGED <<appVars, geomVars, fn_in, poseVars,
                   fontVars>>

NextDoubleBiceps == ApplyDoubleBiceps

SpecDoubleBiceps == InitDoubleBiceps /\ [][NextDoubleBiceps]_vars

----------------------------------------------------------------------------
(* The evaluators and helpers below are pure functions.  They are applied
   under SpecPure: fn_in holds the name of the function and its arguments,
   fn_out its result. *)

\* A verdict that is a fixed message.
Literal(text) == [head |-> text, reasons |-> <<>>, tail |-> ""]

----------------------------------------------------------------------------
(* Doubles too wide for the integers of the checker: math.sqrt of a whole
   number and the product of two such roots.  A natural number below 2^112
   is held as eight limbs of 14 bits, least significant first. *)

LimbBase == 2^14

BigZero == <<0, 0, 0, 0, 0, 0, 0, 0>>

\* Limb k of a * 2^s for 0 <= a < 2^14
ShiftedLimb(a, s, k) ==
    IF k = s \div 14 + 1 THEN (a * 2^(s % 14)) % LimbBase
    ELSE IF k = s \div 14 + 2 THEN (a * 2^(s % 14)) \div LimbBase
    ELSE 0

BigShift(a, s) ==
    <<ShiftedLimb(a, s, 1), ShiftedLimb(a, s, 2), ShiftedLimb(a, s, 3),
      ShiftedLimb(a, s, 4), ShiftedLimb(a, s, 5), ShiftedLimb(a, s, 6),
      ShiftedLimb(a, s, 7), ShiftedLimb(a, s, 8)>>

\* The carry into limb k of the column sums c.
RECURSIVE BigCarry(_, _)
BigCarry(c, k) ==
    IF k = 1 THEN 0 ELSE (c[k - 1] + BigCarry(c, k - 1)) \div LimbBase

\* The limbs of the number with the column sums c.
BigNorm(c) ==
    <<c[1] % LimbBase,
      (c[2] + BigCarry(c, 2)) % LimbBase, (c[3] + BigCarry(c, 3)) % LimbBase,
      (c[4] + BigCarry(c, 4)) % LimbBase, (c[5] + BigCarry(c, 5)) % LimbBase,
      (c[6] + BigCarry(c, 6)) % LimbBase, (c[7] + BigCarry(c, 7)) % LimbBase,
      (c[8] + BigCarry(c, 8)) % LimbBase>>

BigAdd(x, y) ==
    BigNorm(<<x[1] + y[1], x[2] + y[2], x[3] + y[3], x[4] + y[4],
              x[5] + y[5], x[6] + y[6], x[7] + y[7], x[8] + y[8]>>)

\* x * y for x, y < 2^56: the sums of the limb products of each column
BigMul(x, y) ==
    BigNorm(<<x[1] * y[1],
              x[1] * y[2] + x[2] * y[1],
              x[1] * y[3] + x[2] * y[2] + x[3] * y[1],
              x[1] * y[4] + x[2] * y[3] + x[3] * y[2] + x[4] * y[1],
              x[2] * y[4] + x[3] * y[3] + x[4] * y[2],
              x[3] * y[4] + x[4] * y[3],
              x[4] * y[4],
              0>>)

\* x < y: the highest limb in which they differ is smaller in x
BigLess(x, y) ==
    \E k \in 1..8 : x[k] < y[k] /\ \A j \in (k + 1)..8 : x[j] = y[j]

\* M is the whole number nearest to the square root of N:
\* (M - 1/2)^2 < N < (M + 1/2)^2
IsRoundedSqrt(M, N) ==
    /\ BigLess(BigMul(M, M), BigAdd(N, M))
    /\ ~BigLess(BigAdd(BigMul(M, M), M), N)

\* The 53-bit significands among which the roots of the squared lengths
\* A * 4^k of the vectors are looked up, A the sum of two squares up to 50
\* in the order 1, 2, 5, 9, 10, 13, 17, 18, 25, 26, 29, 34, 37, 41, 45,
\* 49, 50.
SqrtSignificands ==
    { <<0, 0, 0, 1024, 0, 0, 0, 0>>,
      <<15309, 6652, 2534, 1448, 0, 0, 0, 0>>,
      <<13480, 11871, 14201, 1144, 0, 0, 0, 0>>,
      <<0, 0, 0, 1536, 0, 0, 0, 0>>,
      <<6995, 11113, 1411, 1619, 0, 0, 0, 0>>,
      <<6643, 4485, 692, 1846, 0, 0, 0, 0>>,
      <<11527, 6847, 8438, 1055, 0, 0, 0, 0>>,
      <<11481, 13181, 1900, 1086, 0, 0, 0, 0>>,
      <<0, 0, 0, 1280, 0, 0, 0, 0>>,
      <<12278, 15432, 5717, 1305, 0, 0, 0, 0>>,
      <<6643, 4771, 9866, 1378, 0, 0, 0, 0>>,
      <<9122, 14030, 11856, 1492, 0, 0, 0, 0>>,
      <<7225, 3471, 3067, 1557, 0, 0, 0, 0>>,
      <<16128, 9855, 3273, 1639, 0, 0, 0, 0>>,
      <<12028, 9615, 4918, 1717, 0, 0, 0, 0>>,
      <<0, 0, 0, 1792, 0, 0, 0, 0>>,
      <<2752, 124, 3168, 1810, 0, 0, 0, 0>> }

\* The correctly rounded root of N, 2^104 <= N < 2^106.  math.sqrt rounds
\* correctly, so the root is the one significand that IsRoundedSqrt accepts.
BigSqrt(N) == CHOOSE M \in SqrtSignificands : IsRoundedSqrt(M, N)

\* math.sqrt(A) for a whole number 0 < A < 2^14: the double M * 2^-s nearest
\* to the root, as the record of its 53-bit significand M and the scale s.
FloatSqrt(A) ==
    [M |-> BigSqrt(BigShift(A, 2 * (52 - Log2Floor(A, 1) \div 2))),
     s |-> 52 - Log2Floor(A, 1) \div 2]

\* The double nearest to Q against the double T of exponent L: 1 when it
\* is above T, -1 when it is below T, 0 when it is T.  T has an even
\* significand; the doubles just below a power of two lie twice as dense.
FloatRoundVs(Q, T, L, pow2) ==
    IF BigLess(BigAdd(T, BigShift(1, L - 53)), Q) THEN 1
    ELSE IF BigLess(BigAdd(Q, BigShift(1, IF pow2 THEN L - 54 ELSE L - 53)), T)
            THEN 0 - 1
    ELSE 0

\* The double ra * rb of two roots against the whole number D.
FloatProductVs(ra, rb, D) ==
    FloatRoundVs(BigMul(ra.M, rb.M), BigShift(D, ra.s + rb.s),
                 Log2Floor(D, 1) + ra.s + rb.s, IsPow2(D))

\* math.sqrt(A) * math.sqrt(B) against the whole number D, D * D = A * B
FloatRootProductVs(A, B, D) ==
    LET vs[ra \in [M : Seq(Nat), s : Nat], rb \in [M : Seq(Nat), s : Nat]] ==
            FloatProductVs(ra, rb, D)
    IN  vs[FloatSqrt(A), FloatSqrt(B)]

----------------------------------------------------------------------------
(* PoseDetector.calculate_angle.  A point is a pair <<x, y>> of whole pixel
   coordinates.  The result is in units of 1/AngleScale degree like the
   angles of the evaluators.  The results 0, 90 and 180 degrees are exact;
   any other result stands for the double the code returns by a value that
   lies on the same side of 0, 30, 75, 80, 90 and 180 degrees, the angles
   the evaluators compare with. *)

\* math.acos raises ValueError for an argument outside [-1, 1].
MathDomainError == 0 - 1

\* dot_product / (magnitude_ba * magnitude_bc) for squared magnitudes A and
\* B.  The quotient is held by dot, the cross product of the two vectors
\* and unit: 0 when the double is exactly 1.0 or -1.0, -1 when it lies
\* beyond, 1 when it lies strictly between.  Only parallel vectors
\* (cross = 0) come within a rounding error of 1.0 or -1.0, and there the
\* quotient is beyond 1 exactly when the product of the roots is below
\* |dot|.
CosAngle(dot, cross, A, B) ==
    [dot |-> dot, cross |-> Abs(cross),
     unit |-> IF cross = 0 THEN FloatRootProductVs(A, B, Abs(dot)) ELSE 1]

\* Mutant: the cosine is passed on as it is.
ClampCosOff(cos) == cos

\* max(-1.0, min(1.0, cos_angle))
ClampCos(cos) == [cos EXCEPT !.unit = IF @ < 0 THEN 0 ELSE @]

\* A representative of the angles strictly between lo and hi degrees.
Between(lo, hi) == (Deg(lo) + Deg(hi)) \div 2

\* math.degrees(math.acos(cos)): tan 30 = 1 / sqrt(3), tan 75 = 2 + sqrt(3),
\* tan 80 = 5.671281...; no ratio of whole numbers with a denominator below
\* 289 lies between 5.67128 and 5.67129.
AcosDegrees(cos) ==
    LET d == cos.dot
        x == cos.cross
    IN  IF cos.unit < 0 THEN MathDomainError
        ELSE IF cos.unit = 0 THEN (IF d > 0 THEN 0 ELSE Deg(180))
        ELSE IF x = 0 THEN (IF d > 0 THEN 1 ELSE Deg(180) - 1)
        ELSE IF d = 0 THEN Deg(90)
        ELSE IF d < 0 THEN Between(90, 180)
        ELSE IF 3 * x * x < d * d THEN Between(0, 30)
        ELSE IF x <= 2 * d \/ (x - 2 * d) * (x - 2 * d) < 3 * d * d
                THEN Between(30, 75)
        ELSE IF 100000 * x <= 567128 * d THEN Between(75, 80)
        ELSE Between(80, 90)

\* magnitude_ba == 0 or magnitude_bc == 0
ZeroMagnitude(A, B) == A = 0 \/ B = 0

calculate_angle(a, b, c) ==
    LET ba == <<a[1] - b[1], a[2] - b[2]>>
        bc == <<c[1] - b[1], c[2] - b[2]>>
        dot_product == ba[1] * bc[1] + ba[2] * bc[2]
        A == ba[1] * ba[1] + ba[2] * ba[2]
        B == bc[1] * bc[1] + bc[2] * bc[2]
    IN  IF ZeroMagnitude(A, B) THEN 0
        ELSE IF A = 0 \/ B = 0 THEN MathDomainError
        ELSE AcosDegrees(ClampCos(
                 CosAngle(dot_product, ba[1] * bc[2] - ba[2] * bc[1], A, B)))

\* Largest coordinate of the points a and c; b is one of two points.
MaxCoord == 3

AngleInputs ==
    [fn : {"calculate_angle"},
     a : ((0 - MaxCoord)..MaxCoord) \X ((0 - MaxCoord)..MaxCoord),
     b : {<<0, 0>>, <<1, 0 - 1>>},
     c : ((0 - MaxCoord)..MaxCoord) \X ((0 - MaxCoord)..MaxCoord)]

ApplyAngle ==
    /\ fn_in.fn = "calculate_angle"
    /\ ~fn_out.done
    /\ fn_out' = [done |-> TRUE,
                  angle |-> calculate_angle(fn_in.a, fn_in.b, fn_in.c)]
    /\ UNCHANGED <<appVars, geomVars, fn_in, poseVars,
                   fontVars>>

----------------------------------------------------------------------------
(* PoseDetector.evaluate_centered *)

\* Mutant: an offset of exactly one tenth of the width still passes.
OffsetWithinThresholdIncl(offset, width) == 10 * offset <= width

\* threshold = width * 0.1; offset < threshold
OffsetWithinThreshold(offset, width) == IntLtFloatMul(offset, width, 1, 10)

evaluate_centered(shoulder_left_x, shoulder_right_x, width) ==
    LET center_x == width \div 2
        body_center_x == (shoulder_left_x + shoulder_right_x) \div 2
        offset == Abs(center_x - body_center_x)
    IN  IF OffsetWithinThreshold(offset, width)
           THEN Literal("Usuario bem centralizado na imagem.")
           ELSE Literal(
                  "Centralize-se melhor na camera para avaliacao precisa.")

\* Largest frame width and the range of shoulder X coordinates (a landmark
\* left of the frame has a negative X).
MaxWidth == 21
MaxX == 12

CenteredInputs ==
    [fn : {"evaluate_centered"}, shoulder_left_x : (0 - 1)..MaxX,
     shoulder_right_x : (0 - 1)..MaxX, width : 1..MaxWidth]

ApplyCentered ==
    /\ fn_in.fn = "evaluate_centered"
    /\ ~fn_out.done
    /\ fn_out' = [done |-> TRUE,
                  verdict |-> evaluate_centered(fn_in.shoulder_left_x,
                                  fn_in.shoulder_right_x, fn_in.width)]
    /\ UNCHANGED <<appVars, geomVars, fn_in, poseVars,
                   fontVars>>

----------------------------------------------------------------------------
(* PoseDetector.evaluate_most_muscular *)

\* Mutant: the guard on a positive shoulder width is dropped.
WristsApartUnguarded(wrist_distance, shoulder_width_actual) ==
    2 * wrist_distance > shoulder_width_actual

\* shoulder_width_actual > 0 and wrist_distance > shoulder_width_actual * 0.5
\* (halving a double is exact, so the comparison is the one of the integers)
WristsApart(wrist_distance, shoulder_width_actual) ==
    /\ shoulder_width_actual > 0
    /\ 2 * wrist_distance > shoulder_width_actual

evaluate_most_muscular(left_arm_angle, right_arm_angle, left_elbow_height, right_elbow_height, left_shoulder_height, right_shoulder_height, shoulder_width, left_knee_angle, right_knee_angle, torso_alignment, left_wrist_x, right_wrist_x, left_shoulder_x, right_shoulder_x) ==
    LET e1 == AppendIf(<<>>, left_elbow_height <= left_shoulder_height + 10,
                       "Cotovelo esquerdo deve estar abaixo do ombro")
        e2 == AppendIf(e1, right_elbow_height <= right_shoulder_height + 10,
                       "Cotovelo direito deve estar abaixo do ombro")
        wrist_distance == Abs(left_wrist_x - right_wrist_x)
        shoulder_width_actual == Abs(right_shoulder_x - left_shoulder_x)
        e3 == AppendIf(e2, WristsApart(wrist_distance, shoulder_width_actual),
              "Bracos devem estar contraidos um contra o outro - aproxime as maos")
    IN  IF e3 # <<>>
           THEN Incorrect(e3)
           ELSE Correct("Posicao correta - Excelente most muscular!")

\* Largest X of a wrist, and of the right shoulder (the left one is at 0).
MaxWristX == 2
MaxShoulderGap == 4

\* Elbows 10 or 11 pixels down the frame and shoulders at 0 or 1: an elbow
\* is 9, 10 or 11 pixels below its shoulder.  The angles, the shoulder_width
\* argument and the torso alignment take two values each.
MostMuscularInputs ==
    [fn : {"evaluate_most_muscular"},
     left_arm_angle : {0, Deg(90)}, right_arm_angle : {Deg(90)},
     left_elbow_height : {10, 11}, right_elbow_height : {10, 11},
     left_shoulder_height : {0, 1}, right_shoulder_height : {0, 1},
     shoulder_width : {0, MaxShoulderGap},
     left_knee_angle : {Deg(90), Deg(175)}, right_knee_angle : {Deg(175)},
     torso_alignment : {0, 5},
     left_wrist_x : 0..MaxWristX, right_wrist_x : 0..MaxWristX,
     left_shoulder_x : {0}, right_shoulder_x : 0..MaxShoulderGap]

ApplyMostMuscular ==
    /\ fn_in.fn = "evaluate_most_muscular"
    /\ ~fn_out.done
    /\ fn_out' = [done |-> TRUE,
                  verdict |-> evaluate_most_muscular(
                      fn_in.left_arm_angle, fn_in.right_arm_angle,
                      fn_in.left_elbow_height, fn_in.right_elbow_height,
                      fn_in.left_shoulder_height, fn_in.right_shoulder_height,
                      fn_in.shoulder_width,
                      fn_in.left_knee_angle, fn_in.right_knee_angle,
                      fn_in.torso_alignment,
                      fn_in.left_wrist_x, fn_in.right_wrist_x,
                      fn_in.left_shoulder_x, fn_in.right_shoulder_x)]
    /\ UNCHANGED <<appVars, geomVars, fn_in, poseVars,
                   fontVars>>

----------------------------------------------------------------------------
(* PoseDetector.evaluate_back_double_biceps and evaluate_side_chest *)

\* Mutant: the back variant also wants each wrist above its elbow.
BackDoubleBicepsWristChecked(left_angle, right_angle, left_elbow_height, right_elbow_height, left_shoulder_height, right_shoulder_height, left_shoulder_x, right_shoulder_x, left_wrist_height, right_wrist_height) ==
    LET e1 == AppendIf(<<>>, left_elbow_height > left_shoulder_height,
              "Cotovelo esquerdo muito baixo - eleve acima do ombro")
        e2 == AppendIf(e1, right_elbow_height > right_shoulder_height,
              "Cotovelo direito muito baixo - eleve acima do ombro")
        e3 == AppendIf(e2, ~ArmAngleInRange(left_angle)
                             \/ left_wrist_height > left_elbow_height,
              "Angulo do braco esquerdo incorreto (30-80 graus)")
        e4 == AppendIf(e3, ~ArmAngleInRange(right_angle)
                             \/ right_wrist_height > right_elbow_height,
              "Angulo do braco direito incorreto (30-80 graus)")
    IN  IF e4 # <<>>
           THEN Incorrect(e4)
           ELSE Correct("Posicao correta - Excelente duplo biceps de costas!")

evaluate_back_double_biceps(left_angle, right_angle, left_elbow_height, right_elbow_height, left_shoulder_height, right_shoulder_height, left_shoulder_x, right_shoulder_x, left_wrist_height, right_wrist_height) ==
    LET e1 == AppendIf(<<>>, left_elbow_height > left_shoulder_height,
              "Cotovelo esquerdo muito baixo - eleve acima do ombro")
        e2 == AppendIf(e1, right_elbow_height > right_shoulder_height,
              "Cotovelo direito muito baixo - eleve acima do ombro")
        e3 == AppendIf(e2, ~ArmAngleInRange(left_angle),
              "Angulo do braco esquerdo incorreto (30-80 graus)")
        e4 == AppendIf(e3, ~ArmAngleInRange(right_angle),
              "Angulo do braco direito incorreto (30-80 graus)")
    IN  IF e4 # <<>>
           THEN Incorrect(e4)
           ELSE Correct("Posicao correta - Excelente duplo biceps de costas!")

\* Heights of elbows, shoulders and wrists and the x of the shoulders: a
\* joint level with, above and below another one.
BackHeights == {0, 1}
BackShoulderXs == {3, 5}
BackWristHeights == {0, 2}

BackDoubleBicepsInputs ==
    [fn : {"evaluate_back_double_biceps"},
     left_angle : ArmAngles, right_angle : ArmAngles,
     left_elbow_height : BackHeights, right_elbow_height : BackHeights,
     left_shoulder_height : BackHeights, right_shoulder_height : BackHeights,
     left_shoulder_x : BackShoulderXs, right_shoulder_x : BackShoulderXs,
     left_wrist_height : BackWristHeights,
     right_wrist_height : BackWristHeights]

ApplyBackDoubleBiceps ==
    /\ fn_in.fn = "evaluate_back_double_biceps"
    /\ ~fn_out.done
    /\ fn_out' = [done |-> TRUE,
                  verdict |-> evaluate_back_double_biceps(
                      fn_in.left_angle, fn_in.right_angle,
                      fn_in.left_elbow_height, fn_in.right_elbow_height,
                      fn_in.left_shoulder_height,
                      fn_in.right_shoulder_height,
                      fn_in.left_shoulder_x, fn_in.right_shoulder_x,
                      fn_in.left_wrist_height, fn_in.right_wrist_height)]
    /\ UNCHANGED <<appVars, geomVars, fn_in, poseVars,
                   fontVars>>

evaluate_side_chest(visible_arm_angle, visible_elbow_height, visible_shoulder_height, hip_rotation, visible_knee_angle, opposite_arm_angle) ==
    LET e1 == AppendIf(<<>>,
                  ~(Deg(75) <= visible_arm_angle
                      /\ visible_arm_angle <= Deg(90)),
                  "Braco visivel deve estar contraido (75-90 graus)")
    IN  IF e1 # <<>>
           THEN Incorrect(e1)
           ELSE Correct("Posicao correta - Excelente side chest!")

----------------------------------------------------------------------------
(* BodyVisionApp._evaluate_pose.  A Point Map is a function from the names
   of the joints it holds to their pixel positions <<x, y>>. *)

\* all(key in points for key in keys)
Has(points, keys) == keys \subseteq DOMAIN points

\* points.get(key, [0, 0])
Get(points, name) ==
    IF name \in DOMAIN points THEN points[name] ELSE <<0, 0>>

\* angle if angle > 0 else default
KneeOr(angle, default) == IF angle > 0 THEN angle ELSE default

\* f"Modo '{pose_mode}' ainda nao implementado"
NotImplemented(mode) ==
    [head |-> "Modo '", reasons |-> <<mode>>,
     tail |-> "' ainda nao implementado"]

\* left_distance < right_distance.  The midpoint (l + r) / 2 and the two
\* differences are exact doubles; both sides are compared doubled.
LeftSideVisible(points) ==
    LET l == points["LEFT_SHOULDER"][1]
        r == points["RIGHT_SHOULDER"][1]
    IN  Abs(2 * l - (l + r)) < Abs(2 * r - (l + r))

\* The side_chest branch once both shoulders are in the Point Map.
SideChest(points, angle_left, angle_right, angle_left_knee, angle_right_knee) ==
    LET hip_rotation ==
            IF Has(points, {"LEFT_HIP", "RIGHT_HIP"})
               THEN Abs(points["LEFT_HIP"][1] - points["RIGHT_HIP"][1])
               ELSE 0
    IN  IF LeftSideVisible(points)
           THEN evaluate_side_chest(
                    angle_left, Get(points, "LEFT_ELBOW")[2],
                    points["LEFT_SHOULDER"][2], hip_rotation,
                    KneeOr(angle_left_knee, Deg(170)), angle_right)
           ELSE evaluate_side_chest(
                    angle_right, Get(points, "RIGHT_ELBOW")[2],
                    points["RIGHT_SHOULDER"][2], hip_rotation,
                    KneeOr(angle_right_knee, Deg(170)), angle_left)

\* The most_muscular branch once shoulders, elbows and wrists are there.
MostMuscular(points, angle_left, angle_right, angle_left_knee, angle_right_knee) ==
    LET shoulder_width ==
            Abs(points["RIGHT_SHOULDER"][1] - points["LEFT_SHOULDER"][1])
        torso_alignment ==
            IF Has(points, {"LEFT_SHOULDER", "LEFT_HIP", "RIGHT_SHOULDER",
                            "RIGHT_HIP"})
               THEN Abs((points["LEFT_SHOULDER"][2] - points["LEFT_HIP"][2])
                        - (points["RIGHT_SHOULDER"][2]
                             - points["RIGHT_HIP"][2]))
               ELSE 0
    IN  evaluate_most_muscular(
            angle_left, angle_right,
            points["LEFT_ELBOW"][2], points["RIGHT_ELBOW"][2],
            points["LEFT_SHOULDER"][2], points["RIGHT_SHOULDER"][2],
            shoulder_width,
            KneeOr(angle_left_knee, Deg(175)),
            KneeOr(angle_right_knee, Deg(175)),
            torso_alignment,
            points["LEFT_WRIST"][1], points["RIGHT_WRIST"][1],
            points["LEFT_SHOULDER"][1], points["RIGHT_SHOULDER"][1])

\* The fallback literal of the modes other than side_chest.
MissingPoints == Literal("Nao foi possivel detectar os pontos necessarios")

\* Mutant: side_chest falls back to the literal of the other modes.
MissingShouldersAsPoints == MissingPoints

\* The fallback literal of side_chest.
MissingShoulders == Literal("Nao foi possivel detectar os ombros")

\* The joints an evaluator needs are all in the Point Map.
RequiredJoints(points, keys) == Has(points, keys)

\* mode is the pose_mode argument.
_evaluate_pose(mode, points, angle_left, angle_right, angle_left_knee, angle_right_knee, camera_width) ==
    IF mode = "double_biceps" THEN
        IF RequiredJoints(points, {"LEFT_ELBOW", "RIGHT_ELBOW",
                                   "LEFT_SHOULDER", "RIGHT_SHOULDER"})
           THEN evaluate_double_biceps(
                    angle_left, angle_right,
                    points["LEFT_ELBOW"][2], points["RIGHT_ELBOW"][2],
                    points["LEFT_SHOULDER"][2], points["RIGHT_SHOULDER"][2])
           ELSE MissingPoints
    ELSE IF mode = "back_double_biceps" THEN
        IF RequiredJoints(points, {"LEFT_ELBOW", "RIGHT_ELBOW",
                                   "LEFT_SHOULDER", "RIGHT_SHOULDER",
                                   "LEFT_WRIST", "RIGHT_WRIST"})
           THEN evaluate_back_double_biceps(
                    angle_left, angle_right,
                    points["LEFT_ELBOW"][2], points["RIGHT_ELBOW"][2],
                    points["LEFT_SHOULDER"][2], points["RIGHT_SHOULDER"][2],
                    points["LEFT_SHOULDER"][1], points["RIGHT_SHOULDER"][1],
                    points["LEFT_WRIST"][2], points["RIGHT_WRIST"][2])
           ELSE MissingPoints
    ELSE IF mode = "side_chest" THEN
        IF ~RequiredJoints(points, {"LEFT_SHOULDER", "RIGHT_SHOULDER"})
           THEN MissingShoulders
           ELSE SideChest(points, angle_left, angle_right,
                          angle_left_knee, angle_right_knee)
    ELSE IF mode = "most_muscular" THEN
        IF RequiredJoints(points, {"LEFT_ELBOW", "RIGHT_ELBOW",
                                   "LEFT_SHOULDER", "RIGHT_SHOULDER",
                                   "LEFT_WRIST", "RIGHT_WRIST"})
           THEN MostMuscular(points, angle_left, angle_right,
                             angle_left_knee, angle_right_knee)
           ELSE MissingPoints
    ELSE IF mode = "enquadramento" THEN
        IF RequiredJoints(points, {"LEFT_SHOULDER", "RIGHT_SHOULDER"})
           THEN evaluate_centered(points["LEFT_SHOULDER"][1],
                                  points["RIGHT_SHOULDER"][1], camera_width)
           ELSE MissingPoints
    ELSE NotImplemented(mode)

----------------------------------------------------------------------------
(* ui_renderer.render_pose_skeleton: the lines it draws, each as the pair of
   the joints it connects *)

Sides == {"LEFT", "RIGHT"}

\* f"{side}_SHOULDER" and the like
JointOf(side, part) == side \o "_" \o part

ArmLines(side) ==
    {<<JointOf(side, "SHOULDER"), JointOf(side, "ELBOW")>>,
     <<JointOf(side, "ELBOW"), JointOf(side, "WRIST")>>}

LegLines(side) ==
    {<<JointOf(side, "HIP"), JointOf(side, "KNEE")>>,
     <<JointOf(side, "KNEE"), JointOf(side, "ANKLE")>>}

\* Mutant: the legs are drawn in every mode.
LegModesAll == MODE_NAMES

\* if pose_mode in ['side_chest', 'most_muscular']
LegModes == {"side_chest", "most_muscular"}

render_pose_skeleton(points, mode) ==
    UNION {IF Has(points, {JointOf(side, "SHOULDER"), JointOf(side, "ELBOW"),
                           JointOf(side, "WRIST")})
              THEN ArmLines(side)
              ELSE {} : side \in Sides}
    \cup
    (IF mode \in LegModes
        THEN UNION {IF Has(points, {JointOf(side, "HIP"),
                                    JointOf(side, "KNEE"),
                                    JointOf(side, "ANKLE")})
                       THEN LegLines(side)
                       ELSE {} : side \in Sides}
        ELSE {})

----------------------------------------------------------------------------
(* BodyVisionApp.process_frame *)

\* A landmark coordinate is a multiple of 1/LandmarkDen of the frame size,
\* so the product landmark.x * camera_width is an exact double.
LandmarkDen == 8

\* int(x) of the ratio num / den, den > 0: truncated toward zero
Trunc(num, den) ==
    IF num >= 0 THEN num \div den ELSE 0 - ((0 - num) \div den)

\* int(landmark.x * size) for landmark.x = k / LandmarkDen
LandmarkPixel(k, size) == Trunc(k * size, LandmarkDen)

\* The joints whose assignment is reached: the one try block holds all 12
\* assignments, and the first landmark that cannot be read ends it.
JointsRead(readable) ==
    {JointOrder[n] : n \in {i \in 1..Len(JointOrder) :
                               \A m \in 1..i : JointOrder[m] \in readable}}

\* The Point Map of the landmarks 'at', of which those of the joints in
\* 'readable' can be read.
ExtractPoints(results, camera_width, h) ==
    [j \in JointsRead(results.readable) |->
        <<LandmarkPixel(results.at[j][1], camera_width),
          LandmarkPixel(results.at[j][2], h)>>]

\* The angle at the knee of a side, 0 unless hip, knee and ankle are there.
KneeAngle(points, hip, knee, ankle) ==
    IF Has(points, {knee, hip, ankle})
       THEN calculate_angle(points[hip], points[knee], points[ankle])
       ELSE 0

\* The angles of the Point Map and its verdict.
EvaluatePoints(mode, points, camera_width) ==
    _evaluate_pose(
        mode, points,
        calculate_angle(Get(points, "LEFT_SHOULDER"),
                        Get(points, "LEFT_ELBOW"),
                        Get(points, "LEFT_WRIST")),
        calculate_angle(Get(points, "RIGHT_SHOULDER"),
                        Get(points, "RIGHT_ELBOW"),
                        Get(points, "RIGHT_WRIST")),
        KneeAngle(points, "LEFT_HIP", "LEFT_KNEE", "LEFT_ANKLE"),
        KneeAngle(points, "RIGHT_HIP", "RIGHT_KNEE", "RIGHT_ANKLE"),
        camera_width)

\* The verdict, whether draw_landmarks and render_pose_skeleton drew on the
\* frame, and the Point Map.  results.detected is the truth value of
\* results.pose_landmarks.
process_frame(results, mode, camera_width, h) ==
    IF results.detected
       THEN [pose_quality |->
                 EvaluatePoints(mode, ExtractPoints(results, camera_width, h),
                                camera_width),
             skeleton |-> TRUE,
             points |-> ExtractPoints(results, camera_width, h),
             lines |-> render_pose_skeleton(
                           ExtractPoints(results, camera_width, h), mode)]
       ELSE [pose_quality |-> None, skeleton |-> FALSE,
             points |-> [j \in {} |-> <<0, 0>>], lines |-> {}]

----------------------------------------------------------------------------
(* Landmarks, Point Maps and the arguments of _evaluate_pose and
   process_frame *)

\* The stance seen from behind: the arms and legs of the left side are on
\* the left of the image.
Turned ==
    [Stance EXCEPT !["LEFT_SHOULDER"] = <<3, 3>>, !["LEFT_ELBOW"] = <<1, 2>>,
                   !["LEFT_WRIST"] = <<2, 1>>, !["RIGHT_SHOULDER"] = <<5, 3>>,
                   !["RIGHT_ELBOW"] = <<7, 2>>, !["RIGHT_WRIST"] = <<6, 1>>,
                   !["LEFT_HIP"] = <<3, 6>>, !["RIGHT_HIP"] = <<5, 6>>,
                   !["LEFT_KNEE"] = <<3, 7>>, !["RIGHT_KNEE"] = <<5, 7>>,
                   !["LEFT_ANKLE"] = <<3, 8>>, !["RIGHT_ANKLE"] = <<5, 8>>]

\* The stance, the stance seen from behind, and the stance with the left
\* shoulder left of and level with the right shoulder in the image.
PoseLayouts ==
    { Stance, Turned,
      [Stance EXCEPT !["LEFT_SHOULDER"] = <<3, 3>>,
                     !["RIGHT_SHOULDER"] = <<5, 3>>],
      [Stance EXCEPT !["LEFT_SHOULDER"] = <<4, 3>>,
                     !["RIGHT_SHOULDER"] = <<4, 3>>] }

\* How many of the 12 landmarks fail to be read at most.
MaxUnreadable == 2

\* results of pose.process: no pose, or landmarks some of which fail
Detections ==
    {NoLandmarks} \cup
    [detected : {TRUE},
     readable : {Joints \ u : u \in {v \in SUBSET Joints :
                                        Cardinality(v) <= MaxUnreadable}},
     at : PoseLayouts]

\* frame.shape of the resized frame: <<camera_width, h>>
FrameSizes == {<<8, 8>>, <<12, 8>>}

ProcessFrameInputs ==
    [fn : {"process_frame"}, results : Detections, pose_mode : MODE_NAMES,
     size : FrameSizes]

ApplyProcessFrame ==
    /\ fn_in.fn = "process_frame"
    /\ ~fn_out.done
    /\ fn_out' = [done |-> TRUE,
                  result |-> process_frame(fn_in.results, fn_in.pose_mode,
                                           fn_in.size[1], fn_in.size[2])]
    /\ UNCHANGED <<appVars, geomVars, fn_in, poseVars,
                   fontVars>>

Restrict(f, S) == [x \in S |-> f[x]]

\* Point Maps with any joints missing, up to MaxUnreadable of them.
SkeletonPointMaps ==
    {Restrict(Stance, Joints \ u) :
        u \in {v \in SUBSET Joints : Cardinality(v) <= MaxUnreadable}}

SkeletonInputs ==
    [fn : {"render_pose_skeleton"}, points : SkeletonPointMaps,
     pose_mode : MODE_NAMES]

ApplySkeleton ==
    /\ fn_in.fn = "render_pose_skeleton"
    /\ ~fn_out.done
    /\ fn_out' = [done |-> TRUE,
                  lines |-> render_pose_skeleton(fn_in.points,
                                                 fn_in.pose_mode)]
    /\ UNCHANGED <<appVars, geomVars, fn_in, poseVars,
                   fontVars>>

\* The joints _evaluate_pose looks for in the Point Map.
EvaluatedJoints == {JointOrder[i] : i \in 1..8}

\* Point Maps with any of the evaluated joints missing.
PointMaps ==
    {Restrict(ExtractPoints([detected |-> TRUE, readable |-> Joints,
                             at |-> l], 8, 8), present) :
        l \in PoseLayouts, present \in SUBSET EvaluatedJoints}

\* The five Pose Modes and a mode that has no evaluator.
EvaluatePoseInputs ==
    [fn : {"_evaluate_pose"},
     pose_mode : MODE_NAMES \cup {"front_lat_spread"},
     points : PointMaps,
     angle_left : {Deg(55), Between(80, 90)},
     angle_right : {Deg(55), Between(80, 90)},
     angle_left_knee : {0, Deg(170)}, angle_right_knee : {Deg(170)},
     camera_width : {8}]

ApplyEvaluatePose ==
    /\ fn_in.fn = "_evaluate_pose"
    /\ ~fn_out.done
    /\ fn_out' = [done |-> TRUE,
                  verdict |-> _evaluate_pose(
                      fn_in.pose_mode, fn_in.points,
                      fn_in.angle_left, fn_in.angle_right,
                      fn_in.angle_left_knee, fn_in.angle_right_knee,
                      fn_in.camera_width)]
    /\ UNCHANGED <<appVars, geomVars, fn_in, poseVars,
                   fontVars>>

----------------------------------------------------------------------------
(* ui_renderer.render_sidebar_menu: the vertical layout of the sidebar *)

\* int(c * scale_factor) for scale_factor = h / 720.0
Scaled(c, h) == FloatMulTrunc(c, h, 720)

\* len(poses_info)
num_items == 5

\* max(min_item_height, int((available_height - total_spacing) / num_items))
ItemHeight(min_item_height, share) == Max(min_item_height, share)

\* The mode_key of the entries of poses_info, in their order.
poses_info ==
    <<"enquadramento", "double_biceps", "back_double_biceps", "side_chest",
      "most_muscular">>

\* Mutant: every entry is drawn as selected.
IsSelectedAlways(mode_key, current_mode) == TRUE

\* is_selected = (mode_key == current_mode)
IsSelected(mode_key, current_mode) == mode_key = current_mode

\* The entries render_sidebar_menu draws with the colours, the accent bar
\* and the checkmark of the selected entry.
SelectedEntries(current_mode) ==
    {idx \in 1..Len(poses_info) : IsSelected(poses_info[idx], current_mode)}

\* Top of the first entry, height of an entry, gap between two entries and
\* top of the footer band for the window height h.
render_sidebar_menu(h) ==
    LET header_height == Scaled(120, h)
        separator_y == header_height + Scaled(10, h)
        footer_height == Scaled(100, h)
        available_height == h - separator_y - footer_height - Scaled(40, h)
        min_item_height == Scaled(90, h)
        min_spacing == Scaled(12, h)
        total_spacing == min_spacing * (num_items - 1)
    IN  [start_y |-> separator_y + Scaled(20, h),
         item_height |->
             ItemHeight(min_item_height,
                        Trunc(available_height - total_spacing, num_items)),
         item_spacing |-> min_spacing,
         footer_y |-> h - footer_height]

\* Largest window height of the bounded range.
MaxHeight == 100

\* Window heights: the bounded range and the heights 720 and 1080.
SidebarInputs ==
    [fn : {"render_sidebar_menu"}, h : (1..MaxHeight) \cup {720, 1080}]

ApplySidebar ==
    /\ fn_in.fn = "render_sidebar_menu"
    /\ ~fn_out.done
    /\ fn_out' = [done |-> TRUE, menu |-> render_sidebar_menu(fn_in.h)]
    /\ UNCHANGED <<appVars, geomVars, fn_in, poseVars,
                   fontVars>>

----------------------------------------------------------------------------
(* The pure functions under one specification *)

InitPure ==
    /\ AppInit
    /\ fn_in \in CenteredInputs \cup MostMuscularInputs \cup AngleInputs
                 \cup EvaluatePoseInputs \cup ProcessFrameInputs
                 \cup SidebarInputs \cup BackDoubleBicepsInputs
                 \cup SkeletonInputs
    /\ fn_out = [done |-> FALSE]

NextPure ==
    \/ ApplyCentered
    \/ ApplyMostMuscular
    \/ ApplyAngle
    \/ ApplyEvaluatePose
    \/ ApplyProcessFrame
    \/ ApplySidebar
    \/ ApplyBackDoubleBiceps
    \/ ApplySkeleton

SpecPure == InitPure /\ [][NextPure]_vars

----------------------------------------------------------------------------
(* ui_renderer.render_feedback_panel: the line wrap of the verdict and the
   colour family of the panel.  A text is the sequence of its characters. *)

\* The characters of the literals the verdicts are built from.
Chars(literal) ==
    CASE literal = "" -> <<>>
      [] literal = "Posicao incorreta - " ->
            <<"P", "o", "s", "i", "c", "a", "o", " ", "i", "n", "c", "o",
              "r", "r", "e", "t", "a", " ", "-", " ">>
      [] literal = "." ->
            <<".">>
      [] literal = "Posicao correta - Excelente postura!" ->
            <<"P", "o", "s", "i", "c", "a", "o", " ", "c", "o", "r", "r",
              "e", "t", "a", " ", "-", " ", "E", "x", "c", "e", "l", "e",
              "n", "t", "e", " ", "p", "o", "s", "t", "u", "r", "a", "!">>
      [] literal = "Posicao correta - Excelente duplo biceps de costas!" ->
            <<"P", "o", "s", "i", "c", "a", "o", " ", "c", "o", "r", "r",
              "e", "t", "a", " ", "-", " ", "E", "x", "c", "e", "l", "e",
              "n", "t", "e", " ", "d", "u", "p", "l", "o", " ", "b", "i",
              "c", "e", "p", "s", " ", "d", "e", " ", "c", "o", "s", "t",
              "a", "s", "!">>
      [] literal = "Posicao correta - Excelente side chest!" ->
            <<"P", "o", "s", "i", "c", "a", "o", " ", "c", "o", "r", "r",
              "e", "t", "a", " ", "-", " ", "E", "x", "c", "e", "l", "e",
              "n", "t", "e", " ", "s", "i", "d", "e", " ", "c", "h", "e",
              "s", "t", "!">>
      [] literal = "Posicao correta - Excelente most muscular!" ->
            <<"P", "o", "s", "i", "c", "a", "o", " ", "c", "o", "r", "r",
              "e", "t", "a", " ", "-", " ", "E", "x", "c", "e", "l", "e",
              "n", "t", "e", " ", "m", "o", "s", "t", " ", "m", "u", "s",
              "c", "u", "l", "a", "r", "!">>
      [] literal = "Cotovelo esquerdo muito baixo" ->
            <<"C", "o", "t", "o", "v", "e", "l", "o", " ", "e", "s", "q",
              "u", "e", "r", "d", "o", " ", "m", "u", "i", "t", "o", " ",
              "b", "a", "i", "x", "o">>
      [] literal = "Cotovelo direito muito baixo" ->
            <<"C", "o", "t", "o", "v", "e", "l", "o", " ", "d", "i", "r",
              "e", "i", "t", "o", " ", "m", "u", "i", "t", "o", " ", "b",
              "a", "i", "x", "o">>
      [] literal = "Angulo do braco esquerdo fora do intervalo (30-80 graus)" ->
            <<"A", "n", "g", "u", "l", "o", " ", "d", "o", " ", "b", "r",
              "a", "c", "o", " ", "e", "s", "q", "u", "e", "r", "d", "o",
              " ", "f", "o", "r", "a", " ", "d", "o", " ", "i", "n", "t",
              "e", "r", "v", "a", "l", "o", " ", "(", "3", "0", "-", "8",
              "0", " ", "g", "r", "a", "u", "s", ")">>
      [] literal = "Angulo do braco direito fora do intervalo (30-80 graus)" ->
            <<"A", "n", "g", "u", "l", "o", " ", "d", "o", " ", "b", "r",
              "a", "c", "o", " ", "d", "i", "r", "e", "i", "t", "o", " ",
              "f", "o", "r", "a", " ", "d", "o", " ", "i", "n", "t", "e",
              "r", "v", "a", "l", "o", " ", "(", "3", "0", "-", "8", "0",
              " ", "g", "r", "a", "u", "s", ")">>
      [] literal = "Cotovelo esquerdo muito baixo - eleve acima do ombro" ->
            <<"C", "o", "t", "o", "v", "e", "l", "o", " ", "e", "s", "q",
              "u", "e", "r", "d", "o", " ", "m", "u", "i", "t", "o", " ",
              "b", "a", "i", "x", "o", " ", "-", " ", "e", "l", "e", "v",
              "e", " ", "a", "c", "i", "m", "a", " ", "d", "o", " ", "o",
              "m", "b", "r", "o">>
      [] literal = "Cotovelo direito muito baixo - eleve acima do ombro" ->
            <<"C", "o", "t", "o", "v", "e", "l", "o", " ", "d", "i", "r",
              "e", "i", "t", "o", " ", "m", "u", "i", "t", "o", " ", "b",
              "a", "i", "x", "o", " ", "-", " ", "e", "l", "e", "v", "e",
              " ", "a", "c", "i", "m", "a", " ", "d", "o", " ", "o", "m",
              "b", "r", "o">>
      [] literal = "Angulo do braco esquerdo incorreto (30-80 graus)" ->
            <<"A", "n", "g", "u", "l", "o", " ", "d", "o", " ", "b", "r",
              "a", "c", "o", " ", "e", "s", "q", "u", "e", "r", "d", "o",
              " ", "i", "n", "c", "o", "r", "r", "e", "t", "o", " ", "(",
              "3", "0", "-", "8", "0", " ", "g", "r", "a", "u", "s", ")">>
      [] literal = "Angulo do braco direito incorreto (30-80 graus)" ->
            <<"A", "n", "g", "u", "l", "o", " ", "d", "o", " ", "b", "r",
              "a", "c", "o", " ", "d", "i", "r", "e", "i", "t", "o", " ",
              "i", "n", "c", "o", "r", "r", "e", "t", "o", " ", "(", "3",
              "0", "-", "8", "0", " ", "g", "r", "a", "u", "s", ")">>
      [] literal = "Braco visivel deve estar contraido (75-90 graus)" ->
            <<"B", "r", "a", "c", "o", " ", "v", "i", "s", "i", "v", "e",
              "l", " ", "d", "e", "v", "e", " ", "e", "s", "t", "a", "r",
              " ", "c", "o", "n", "t", "r", "a", "i", "d", "o", " ", "(",
              "7", "5", "-", "9", "0", " ", "g", "r", "a", "u", "s", ")">>
      [] literal = "Cotovelo esquerdo deve estar abaixo do ombro" ->
            <<"C", "o", "t", "o", "v", "e", "l", "o", " ", "e", "s", "q",
              "u", "e", "r", "d", "o", " ", "d", "e", "v", "e", " ", "e",
              "s", "t", "a", "r", " ", "a", "b", "a", "i", "x", "o", " ",
              "d", "o", " ", "o", "m", "b", "r", "o">>
      [] literal = "Cotovelo direito deve estar abaixo do ombro" ->
            <<"C", "o", "t", "o", "v", "e", "l", "o", " ", "d", "i", "r",
              "e", "i", "t", "o", " ", "d", "e", "v", "e", " ", "e", "s",
              "t", "a", "r", " ", "a", "b", "a", "i", "x", "o", " ", "d",
              "o", " ", "o", "m", "b", "r", "o">>
      [] literal = "Bracos devem estar contraidos um contra o outro - aproxime as maos" ->
            <<"B", "r", "a", "c", "o", "s", " ", "d", "e", "v", "e", "m",
              " ", "e", "s", "t", "a", "r", " ", "c", "o", "n", "t", "r",
              "a", "i", "d", "o", "s", " ", "u", "m", " ", "c", "o", "n",
              "t", "r", "a", " ", "o", " ", "o", "u", "t", "r", "o", " ",
              "-", " ", "a", "p", "r", "o", "x", "i", "m", "e", " ", "a",
              "s", " ", "m", "a", "o", "s">>
      [] literal = "Usuario bem centralizado na imagem." ->
            <<"U", "s", "u", "a", "r", "i", "o", " ", "b", "e", "m", " ",
              "c", "e", "n", "t", "r", "a", "l", "i", "z", "a", "d", "o",
              " ", "n", "a", " ", "i", "m", "a", "g", "e", "m", ".">>
      [] literal = "Centralize-se melhor na camera para avaliacao precisa." ->
            <<"C", "e", "n", "t", "r", "a", "l", "i", "z", "e", "-", "s",
              "e", " ", "m", "e", "l", "h", "o", "r", " ", "n", "a", " ",
              "c", "a", "m", "e", "r", "a", " ", "p", "a", "r", "a", " ",
              "a", "v", "a", "l", "i", "a", "c", "a", "o", " ", "p", "r",
              "e", "c", "i", "s", "a", ".">>
      [] literal = "Nao foi possivel detectar os pontos necessarios" ->
            <<"N", "a", "o", " ", "f", "o", "i", " ", "p", "o", "s", "s",
              "i", "v", "e", "l", " ", "d", "e", "t", "e", "c", "t", "a",
              "r", " ", "o", "s", " ", "p", "o", "n", "t", "o", "s", " ",
              "n", "e", "c", "e", "s", "s", "a", "r", "i", "o", "s">>
      [] literal = "Nao foi possivel detectar os ombros" ->
            <<"N", "a", "o", " ", "f", "o", "i", " ", "p", "o", "s", "s",
              "i", "v", "e", "l", " ", "d", "e", "t", "e", "c", "t", "a",
              "r", " ", "o", "s", " ", "o", "m", "b", "r", "o", "s">>

\* "; ".join(errors)
RECURSIVE JoinReasons(_)
JoinReasons(errors) ==
    IF errors = <<>> THEN <<>>
    ELSE IF Len(errors) = 1 THEN Chars(errors[1])
    ELSE Chars(errors[1]) \o <<";", " ">> \o JoinReasons(Tail(errors))

\* The string a verdict stands for: head + "; ".join(reasons) + tail
Text(verdict) ==
    Chars(verdict.head) \o JoinReasons(verdict.reasons) \o Chars(verdict.tail)

\* The characters str.strip() removes, of those that occur in the texts.
Whitespace == {" "}

RECURSIVE LStrip(_)
LStrip(text) ==
    IF text # <<>> /\ Head(text) \in Whitespace
       THEN LStrip(Tail(text))
       ELSE text

RECURSIVE RStrip(_)
RStrip(text) ==
    IF text # <<>> /\ text[Len(text)] \in Whitespace
       THEN RStrip(SubSeq(text, 1, Len(text) - 1))
       ELSE text

\* text.strip()
Strip(text) == RStrip(LStrip(text))

\* text[from:to] for 0 <= from and 0 <= to
Slice(text, from, to) == SubSeq(text, from + 1, Min(to, Len(text)))

\* text.rfind(ch, 0, end) for end >= 0: the last index below end (counted
\* from 0) at which ch stands, -1 if there is none
RFind(text, ch, end) ==
    LET hits == {i \in 0..(Min(end, Len(text)) - 1) : text[i + 1] = ch}
    IN  IF hits = {} THEN 0 - 1
        ELSE CHOOSE i \in hits : \A j \in hits : j <= i

\* text.lower(), for the letters without accent
Lower(text) ==
    LET upper == <<"A", "B", "C", "D", "E", "F", "G", "H", "I", "J", "K",
                   "L", "M", "N", "O", "P", "Q", "R", "S", "T", "U", "V",
                   "W", "X", "Y", "Z">>
        lower == <<"a", "b", "c", "d", "e", "f", "g", "h", "i", "j", "k",
                   "l", "m", "n", "o", "p", "q", "r", "s", "t", "u", "v",
                   "w", "x", "y", "z">>
    IN  [i \in 1..Len(text) |->
            IF \E k \in 1..26 : upper[k] = text[i]
               THEN lower[CHOOSE k \in 1..26 : upper[k] = text[i]]
               ELSE text[i]]

\* text.startswith(prefix)
StartsWith(text, prefix) ==
    Len(text) >= Len(prefix) /\ SubSeq(text, 1, Len(prefix)) = prefix

\* word in text
Contains(text, word) ==
    \E i \in 1..(Len(text) - Len(word) + 1) :
        SubSeq(text, i, i + Len(word) - 1) = word

\* "Posicao correta" and "centralizado"
PraisePrefix ==
    <<"P", "o", "s", "i", "c", "a", "o", " ", "c", "o", "r", "r", "e", "t",
      "a">>
CenteredWord ==
    <<"c", "e", "n", "t", "r", "a", "l", "i", "z", "a", "d", "o">>

\* Mutant: only a praise makes the panel green.
IsGreenPraiseOnly(text) == StartsWith(text, PraisePrefix)

\* pose_quality.startswith("Posicao correta")
\*     or "centralizado" in pose_quality.lower()
IsGreen(text) ==
    StartsWith(text, PraisePrefix) \/ Contains(Lower(text), CenteredWord)

\* max_chars = int(50 * scale_factor) for scale_factor = camera_width / 1280.0
MaxChars(camera_width) == FloatMulTrunc(50, camera_width, 1280)

\* split_index: the last semicolon below max_chars, else max_chars
SplitIndex(text, max_chars) ==
    IF RFind(text, ";", max_chars) = 0 - 1
       THEN max_chars
       ELSE RFind(text, ";", max_chars)

\* Mutant: the text goes on one character after the split.
RestSkipping(text, split_index) ==
    Strip(Slice(text, split_index + 2, Len(text)))

\* pose_quality_temp[split_index + 1:].strip()
Rest(text, split_index) ==
    Strip(Slice(text, split_index + 1, Len(text)))

\* lines = [], max_chars, pose_quality_temp = pose_quality
FeedbackEnter ==
    /\ fn_in.fn = "render_feedback_panel"
    /\ DOMAIN fn_out = {"done"}
    /\ fn_out' = [done |-> FALSE, lines |-> <<>>,
                  max_chars |-> MaxChars(fn_in.camera_width),
                  pose_quality_temp |-> fn_in.pose_quality]
    /\ UNCHANGED <<appVars, geomVars, fn_in, poseVars,
                   fontVars>>

\* One pass of while len(pose_quality_temp) > max_chars
WrapPass ==
    /\ fn_in.fn = "render_feedback_panel"
    /\ "lines" \in DOMAIN fn_out
    /\ ~fn_out.done
    /\ Len(fn_out.pose_quality_temp) > fn_out.max_chars
    /\ LET split_index ==
               SplitIndex(fn_out.pose_quality_temp, fn_out.max_chars)
       IN  fn_out' =
               [fn_out EXCEPT
                   !.lines = Append(@, Strip(Slice(fn_out.pose_quality_temp,
                                                   0, split_index + 1))),
                   !.pose_quality_temp =
                       Rest(fn_out.pose_quality_temp, split_index)]
    /\ UNCHANGED <<appVars, geomVars, fn_in, poseVars,
                   fontVars>>

\* The end of the loop: lines.append(pose_quality_temp), the colours by the
\* status and the drawing of the panel.
WrapExit ==
    /\ fn_in.fn = "render_feedback_panel"
    /\ "lines" \in DOMAIN fn_out
    /\ ~fn_out.done
    /\ Len(fn_out.pose_quality_temp) <= fn_out.max_chars
    /\ fn_out' = [done |-> TRUE,
                  lines |-> Append(fn_out.lines, fn_out.pose_quality_temp),
                  max_chars |-> fn_out.max_chars,
                  pose_quality_temp |-> fn_out.pose_quality_temp,
                  green |-> IsGreen(fn_in.pose_quality)]
    /\ UNCHANGED <<appVars, geomVars, fn_in, poseVars,
                   fontVars>>

\* Every verdict _evaluate_pose returns in the five Pose Modes: each choice
\* of reasons of each evaluator, the praises and the fallback literals.
Verdicts ==
    {evaluate_double_biceps(la, ra, le, re, 1, 1) :
        la, ra \in {Deg(55), Deg(90)}, le, re \in {0, 2}}
    \cup {evaluate_back_double_biceps(la, ra, le, re, 1, 1, 3, 5, 0, 0) :
            la, ra \in {Deg(55), Deg(90)}, le, re \in {0, 2}}
    \cup {evaluate_side_chest(a, 0, 0, 0, Deg(170), 0) :
            a \in {Deg(55), Deg(80)}}
    \cup {evaluate_most_muscular(0, 0, le, re, 0, 0, 4, Deg(175), Deg(175),
                                 0, lw, 0, 0, 4) :
            le, re \in {0, 20}, lw \in {0, 4}}
    \cup {evaluate_centered(l, 4, 8) : l \in {0, 4}}
    \cup {MissingPoints, MissingShoulders}

\* Longest text over the alphabet of a letter, a semicolon and a blank.
MaxText == 5

SmallTexts == UNION {[1..n -> {"a", ";", " "}] : n \in 0..MaxText}

\* Widths of the frame on the canvas: a 16:9 frame in windows 1280 and 1920
\* wide, and widths for which max_chars is 0, 1, 2, 3 and 4.
VerdictWidths == {973, 1460}
SmallWidths == {1, 26, 52, 77, 103}

InitFeedback ==
    /\ AppInit
    /\ fn_in \in [fn : {"render_feedback_panel"},
                  pose_quality : {Text(v) : v \in Verdicts},
                  camera_width : VerdictWidths]
                 \cup [fn : {"render_feedback_panel"},
                       pose_quality : SmallTexts,
                       camera_width : SmallWidths]
    /\ fn_out = [done |-> FALSE]

NextFeedback ==
    \/ FeedbackEnter
    \/ WrapPass
    \/ WrapExit

\* render_feedback_panel runs on: a step that can be taken is taken.
SpecFeedback ==
    InitFeedback /\ [][NextFeedback]_vars /\ WF_vars(NextFeedback)

----------------------------------------------------------------------------
(* BodyVisionApp.run *)

\* Mutant: only a missing handle counts as a failed acquisition.
AcquisitionFailedNoneOnly(c) == c = "None"

\* if self.cap is None or not self.cap.isOpened()
AcquisitionFailed(c) == c = "None" \/ c = "unopened"

\* self.cap, camera_index = find_camera(); the guard on a missing or
\* unopened handle prints the guidance and returns.
Acquire ==
    /\ pc = "start"
    /\ \E c \in CameraResults :
          /\ cap' = c
          /\ IF AcquisitionFailed(c)
                THEN /\ calls' = Bump(calls, "guidance")
                     /\ pc' = "done"
                ELSE /\ calls' = calls
                     /\ pc' = "setup"
    /\ UNCHANGED <<frame_error_count, pose_mode, fullscreen, key,
                   exit_reason, fails_since_ok, fails_before, last_read,
                   mode_before, geomVars, fnVars, poseVars,
                   fontVars>>

\* Resolution, FPS, window creation, fullscreen, the counters of the loop.
Setup ==
    /\ pc = "setup"
    /\ calls' = Bump(calls, "namedWindow")
    /\ fullscreen' = TRUE
    /\ frame_error_count' = 0
    /\ pc' = "loop_top"
    /\ UNCHANGED <<cap, pose_mode, key, exit_reason, fails_since_ok,
                   fails_before, last_read, mode_before, geomVars, fnVars, poseVars,
                   fontVars>>

\* while self.cap.isOpened(): the device reports whether it is still open.
LoopTop ==
    /\ pc = "loop_top"
    /\ \E isOpened \in BOOLEAN :
          IF isOpened
             THEN pc' = "read" /\ exit_reason' = exit_reason
             ELSE pc' = "cleanup" /\ exit_reason' = "not_opened"
    /\ UNCHANGED <<cap, frame_error_count, pose_mode, fullscreen, key, calls,
                   fails_since_ok, fails_before, last_read, mode_before,
                   geomVars, fnVars, poseVars,
                   fontVars>>

\* The branch taken after a failed read: break or sleep and continue.
FailedReadBreaks(count) == count > max_frame_errors

\* Mutant: a successful read leaves the failure count as it is.
CountAfterGoodReadKept(count) == count

\* The value of frame_error_count after a successful read.
CountAfterGoodRead(count) == 0

\* ret, frame = self.cap.read() and the handling of a failed read.
ReadFrame ==
    /\ pc = "read"
    /\ \E r \in ReadResults, shape \in FrameShapes :
          /\ last_read' = r
          /\ frame' = IF ReadFailed(r) THEN NoFrame ELSE shape
          /\ fails_before' = frame_error_count
          /\ calls' = Bump(calls, "read")
          /\ IF ReadFailed(r)
                THEN /\ frame_error_count' = frame_error_count + 1
                     /\ fails_since_ok' = fails_since_ok + 1
                     /\ IF FailedReadBreaks(frame_error_count + 1)
                           THEN pc' = "cleanup" /\ exit_reason' = "errors"
                           ELSE pc' = "loop_top" /\ exit_reason' = exit_reason
                ELSE /\ frame_error_count' =
                            CountAfterGoodRead(frame_error_count)
                     /\ fails_since_ok' = 0
                     /\ pc' = "resize"
                     /\ exit_reason' = exit_reason
    /\ drawn' = {}
    /\ frame_mode' = ""
    /\ selected' = {}
    /\ UNCHANGED <<cap, pose_mode, fullscreen, key, mode_before, layout,
                   fnVars, detection, pose_quality,
                   fontVars>>

\* The layout of one iteration for the window rectangle rect and a frame
\* of shape: window size (1920x1080 when the rectangle is invalid), sidebar
\* of 24% of the width and at least 300, viewport, letterbox size.
Layout(rect, shape) ==
    LET valid == rect[1] > 0 /\ rect[2] > 0
        window_width == IF valid THEN rect[1] ELSE 1920
        window_height == IF valid THEN rect[2] ELSE 1080
        sidebar_width == Max(FloatMulTrunc(window_width, 6, 25), 300)
        camera_display_width == window_width - sidebar_width
        camera_display_height == window_height
        box == Letterbox(shape[1], shape[2], camera_display_width,
                         camera_display_height)
    IN  [window_width |-> window_width, window_height |-> window_height,
         sidebar_width |-> sidebar_width,
         camera_display_width |-> camera_display_width,
         camera_display_height |-> camera_display_height,
         new_width |-> box.new_width, new_height |-> box.new_height]

\* cv2.resize(frame, (new_width, new_height)) raises cv2.error unless both
\* sizes are positive.
ResizeRaises(l) == l.new_width <= 0 \/ l.new_height <= 0

\* Window rectangle, sidebar and viewport sizes, letterbox size, cv2.resize.
\* An exception of cv2.resize leaves run() without the cleanup.
Resize ==
    /\ pc = "resize"
    /\ \E rect \in WindowRects :
          /\ layout' = Layout(rect, frame)
          /\ IF ResizeRaises(Layout(rect, frame))
                THEN pc' = "raised" /\ exit_reason' = "exception"
                ELSE pc' = "process" /\ exit_reason' = exit_reason
    /\ UNCHANGED <<cap, frame_error_count, pose_mode, fullscreen, key, calls,
                   fails_since_ok, fails_before, last_read, mode_before,
                   frame, fnVars, poseVars,
                   fontVars>>

\* The landmarks of a stance with both arms bent at a right angle.
Flexed ==
    [Stance EXCEPT !["LEFT_ELBOW"] = <<7, 3>>, !["LEFT_WRIST"] = <<7, 1>>,
                   !["RIGHT_ELBOW"] = <<1, 3>>, !["RIGHT_WRIST"] = <<1, 1>>]

\* What pose.process returns in run(): no pose, the stance with the ankles
\* out of reach, the stance with the first landmark unreadable.
RunDetections ==
    { NoLandmarks,
      [detected |-> TRUE, readable |-> Joints \ {"LEFT_ANKLE", "RIGHT_ANKLE"},
       at |-> Flexed],
      [detected |-> TRUE, readable |-> Joints \ {"LEFT_SHOULDER"},
       at |-> Flexed] }

\* frame, pose_quality = self.process_frame(frame_resized, self.pose_mode,
\* new_width), then FPS and pacing.
Process ==
    /\ pc = "process"
    /\ \E r \in RunDetections :
          /\ detection' = r
          /\ pose_quality' =
                 process_frame(r, pose_mode, layout.new_width,
                               layout.new_height).pose_quality
          /\ drawn' = IF process_frame(r, pose_mode, layout.new_width,
                                       layout.new_height).skeleton
                         THEN {"skeleton"}
                         ELSE {}
    /\ frame_mode' = pose_mode
    /\ pc' = "render"
    /\ UNCHANGED <<cap, frame_error_count, pose_mode, fullscreen, key, calls,
                   exit_reason, fails_since_ok, fails_before, last_read,
                   mode_before, geomVars, fnVars, selected,
                   fontVars>>

\* Mutant: the feedback panel is rendered whatever pose_quality is.
FeedbackAlways(quality) == TRUE

\* if pose_quality: neither None nor an empty text
Truthy(quality) ==
    quality.head # "" \/ quality.reasons # <<>> \/ quality.tail # ""

\* The combined canvas and the panels drawn on it: info panel, instructions
\* panel, feedback panel if there is a verdict, sidebar menu.
Render ==
    /\ pc = "render"
    /\ drawn' = drawn \cup {"info", "instructions", "sidebar"}
                      \cup (IF Truthy(pose_quality) THEN {"feedback"} ELSE {})
    /\ selected' = SelectedEntries(pose_mode)
    /\ pc' = "show"
    /\ UNCHANGED <<cap, frame_error_count, pose_mode, fullscreen, key, calls,
                   exit_reason, fails_since_ok, fails_before, last_read,
                   mode_before, geomVars, fnVars, detection, pose_quality,
                   frame_mode,
                   fontVars>>

\* Mutant: the frame is displayed and the keys are polled at once.
ShowThenPoll ==
    /\ pc = "show"
    /\ calls' = Bump(calls, "imshow")
    /\ drawn' = drawn \cup {"display"}
    /\ pc' = "poll_key"
    /\ UNCHANGED <<cap, frame_error_count, pose_mode, fullscreen, key,
                   exit_reason, fails_since_ok, fails_before, last_read,
                   mode_before, geomVars, fnVars, detection, pose_quality,
                   frame_mode, selected,
                   fontVars>>

\* cv2.imshow(self.window_name, combined_frame)
Show ==
    /\ pc = "show"
    /\ calls' = Bump(calls, "imshow")
    /\ drawn' = drawn \cup {"display"}
    /\ pc' = "check_window"
    /\ UNCHANGED <<cap, frame_error_count, pose_mode, fullscreen, key,
                   exit_reason, fails_since_ok, fails_before, last_read,
                   mode_before, geomVars, fnVars, detection, pose_quality,
                   frame_mode, selected,
                   fontVars>>

\* Values of cv2.getWindowProperty(window, WND_PROP_VISIBLE).
VisibleProps == {-1, 0, 1}

\* if cv2.getWindowProperty(..., cv2.WND_PROP_VISIBLE) < 1: break
CheckWindow ==
    /\ pc = "check_window"
    /\ \E prop \in VisibleProps :
          IF prop < 1
             THEN pc' = "cleanup" /\ exit_reason' = "closed"
             ELSE pc' = "poll_key" /\ exit_reason' = exit_reason
    /\ UNCHANGED <<cap, frame_error_count, pose_mode, fullscreen, key, calls,
                   fails_since_ok, fails_before, last_read, mode_before,
                   geomVars, fnVars, poseVars,
                   fontVars>>

\* if key == ord('q') or key == 27
IsQuitKey(k) == k = KEY_q \/ k = KEY_ESC

\* elif key == ord('f') or key == ord('F')
IsFullscreenKey(k) == k = KEY_f \/ k = KEY_F

\* Mutant: the branches of '4' and '5' are exchanged.
ModeForKeySwapped(k, mode) ==
    CASE k = KEY_1 -> "enquadramento"
      [] k = KEY_2 -> "double_biceps"
      [] k = KEY_3 -> "back_double_biceps"
      [] k = KEY_4 -> "most_muscular"
      [] k = KEY_5 -> "side_chest"
      [] OTHER -> mode

\* Mutant: a final else branch falls back to the framing mode.
ModeForKeyDefaultReset(k, mode) ==
    CASE k = KEY_1 -> "enquadramento"
      [] k = KEY_2 -> "double_biceps"
      [] k = KEY_3 -> "back_double_biceps"
      [] k = KEY_4 -> "side_chest"
      [] k = KEY_5 -> "most_muscular"
      [] OTHER -> "enquadramento"

\* Mutant: '5' selects a mode that has no evaluator.
ModeForKeyFrontLat(k, mode) ==
    CASE k = KEY_1 -> "enquadramento"
      [] k = KEY_2 -> "double_biceps"
      [] k = KEY_3 -> "back_double_biceps"
      [] k = KEY_4 -> "side_chest"
      [] k = KEY_5 -> "front_lat_spread"
      [] OTHER -> mode

\* The elif chain on '1'..'5': the Pose Mode after key k was dispatched.
ModeForKey(k, mode) ==
    CASE k = KEY_1 -> "enquadramento"
      [] k = KEY_2 -> "double_biceps"
      [] k = KEY_3 -> "back_double_biceps"
      [] k = KEY_4 -> "side_chest"
      [] k = KEY_5 -> "most_muscular"
      [] OTHER -> mode

\* key = cv2.waitKey(1) & 0xFF and the dispatch on it.
PollKey ==
    /\ pc = "poll_key"
    /\ \E raw \in RawKeys :
          LET k == MaskKey(raw) IN
          /\ key' = k
          /\ mode_before' = pose_mode
          /\ IF IsQuitKey(k)
                THEN /\ pc' = "cleanup"
                     /\ exit_reason' = "quit"
                     /\ UNCHANGED <<pose_mode, fullscreen>>
                ELSE /\ pc' = "loop_top"
                     /\ exit_reason' = exit_reason
                     /\ IF IsFullscreenKey(k)
                           THEN /\ fullscreen' = ~fullscreen
                                /\ pose_mode' = pose_mode
                           ELSE /\ fullscreen' = fullscreen
                                /\ pose_mode' = ModeForKey(k, pose_mode)
    /\ UNCHANGED <<cap, frame_error_count, calls, fails_since_ok,
                   fails_before, last_read, geomVars, fnVars, poseVars,
                   fontVars>>

\* Mutant: the test on the handle is inverted.
HasHandleInverted(c) == c = "None"

\* if self.cap is not None
HasHandle(c) == c # "None"

\* The cleanup after the loop: release the device, destroy the windows.
Cleanup ==
    /\ pc = "cleanup"
    /\ calls' = Bump(IF HasHandle(cap) THEN Bump(calls, "release") ELSE calls,
                     "destroyAllWindows")
    /\ pc' = "done"
    /\ UNCHANGED <<cap, frame_error_count, pose_mode, fullscreen, key,
                   exit_reason, fails_since_ok, fails_before, last_read,
                   mode_before, geomVars, fnVars, poseVars,
                   fontVars>>

Next ==
    \/ Acquire
    \/ Setup
    \/ LoopTop
    \/ ReadFrame
    \/ Resize
    \/ Process
    \/ Render
    \/ Show
    \/ CheckWindow
    \/ PollKey
    \/ Cleanup

Spec == Init /\ [][Next]_vars

----------------------------------------------------------------------------
(* The letterbox arithmetic on bounded sizes *)

\* Largest frame width and height, largest viewport width and height.
MaxFrameDim == 9
MaxViewDim == 9

InitLetterbox ==
    /\ AppInit
    /\ fn_in \in [fn : {"letterbox"},
                  frame_w : 1..MaxFrameDim, frame_h : 1..MaxFrameDim,
                  camera_display_width : 1..MaxViewDim,
                  camera_display_height : 1..MaxViewDim]
    /\ fn_out = [done |-> FALSE]

ApplyLetterbox ==
    /\ fn_in.fn = "letterbox"
    /\ ~fn_out.done
    /\ fn_out' = [done |-> TRUE,
                  box |-> Letterbox(fn_in.frame_w, fn_in.frame_h,
                                    fn_in.camera_display_width,
                                    fn_in.camera_display_height)]
    /\ UNCHANGED <<appVars, geomVars, fn_in, poseVars,
                   fontVars>>

NextLetterbox == ApplyLetterbox

SpecLetterbox == InitLetterbox /\ [][NextLetterbox]_vars

----------------------------------------------------------------------------
(* Claims about the main loop, checked under Spec *)

LoopLeft == pc \in {"cleanup", "done"}

\* C1: 9 consecutive failed frame reads do not terminate the loop, and the
\* 10th consecutive failed read terminates it: the loop is left because of
\* read failures only after at least 10 of them in a row, and once 10 reads
\* in a row have failed the loop has been left.
C1_TenthFailureTerminates ==
    /\ exit_reason = "errors" => fails_since_ok >= 10
    /\ fails_since_ok >= 10 => LoopLeft

\* C2: the consecutive-failure counter always equals the number of failed
\* reads since the last successful read; a successful read resets it to 0.
C2_CounterIsFailsSinceGoodRead ==
    /\ frame_error_count = fails_since_ok
    /\ last_read = "ok" => frame_error_count = 0

\* C2 witness: a read succeeded after failed reads and the counter is 0.
C2_ResetAfterFailures ==
    last_read = "ok" /\ fails_before > 0 /\ frame_error_count = 0

\* C3: a key '1'..'5' processed by the loop sets the Pose Mode to
\* enquadramento, double_biceps, back_double_biceps, side_chest and
\* most_muscular respectively, whatever the mode was before.
C3_ModeKeysSelectMode ==
    /\ key = KEY_1 => pose_mode = "enquadramento"
    /\ key = KEY_2 => pose_mode = "double_biceps"
    /\ key = KEY_3 => pose_mode = "back_double_biceps"
    /\ key = KEY_4 => pose_mode = "side_chest"
    /\ key = KEY_5 => pose_mode = "most_muscular"

\* C3 witness: '5' was processed while another mode was active.
C3_ModeKeyFromOtherMode ==
    key = KEY_5 /\ mode_before = "double_biceps" /\ pose_mode = "most_muscular"

\* C4: the Pose Mode changes only in the key dispatch, and only when the key
\* polled is one of '1'..'5'; every other step and every other key leaves it
\* unchanged.
C4_OnlyModeKeysChangeMode ==
    [][pose_mode' # pose_mode =>
          pc = "poll_key" /\ key' \in {KEY_1, KEY_2, KEY_3, KEY_4, KEY_5}]_vars

\* C4 witness: 'f' was processed in a mode other than the initial one and
\* the mode is the one before the poll.
C4_OtherKeyKeepsMode ==
    /\ key = KEY_f
    /\ pc = "loop_top"
    /\ mode_before = "side_chest"
    /\ pose_mode = "side_chest"

\* C5: polling 'q', 'Q' or Escape leaves the loop (no further frame is
\* read): whenever the last key polled is one of them, run() is in its
\* cleanup or has returned.
C5_QuitKeysLeaveLoop ==
    key \in {KEY_q, KEY_Q, KEY_ESC} => LoopLeft

\* C6: on every exit from the loop (quit key, window closed, too many read
\* failures, device no longer open) the device is released exactly once and
\* the windows are destroyed before run() returns, and no frame is read
\* after the release.
C6_ReleasedOnceOnEveryExit ==
    /\ calls["release"] <= 1
    /\ calls["release"] >= 1 => pc # "read"
    /\ (pc = "done" /\
        exit_reason \in {"quit", "closed", "errors", "not_opened"}) =>
           calls["release"] = 1 /\ calls["destroyAllWindows"] >= 1

\* C6 witness: run() returned after the user closed the window.
C6_ReturnedAfterWindowClosed ==
    /\ pc = "done"
    /\ exit_reason = "closed"
    /\ calls["release"] = 1
    /\ calls["destroyAllWindows"] = 1

\* C7: when find_camera yields no handle or a handle that is not opened,
\* run() prints the guidance and returns without reading a frame, creating a
\* window or displaying anything.
C7_FailedAcquisitionSkipsLoop ==
    (pc # "start" /\ cap \in {"None", "unopened"}) =>
        /\ pc = "done"
        /\ calls["guidance"] = 1
        /\ calls["read"] = 0
        /\ calls["namedWindow"] = 0
        /\ calls["imshow"] = 0

\* C7 witness: run() returned on a handle that is not opened.
C7_ReturnedOnUnopenedHandle ==
    pc = "done" /\ cap = "unopened" /\ calls["guidance"] = 1

\* C8: the cleanup runs also after a failed startup: when run() has
\* returned, a handle that acquisition yielded has been released.
C8_HandleReleasedAfterFailedStartup ==
    (pc = "done" /\ cap # "None") => calls["release"] = 1

----------------------------------------------------------------------------
(* Claims about the pose pipeline of the main loop, checked under Spec *)

\* C17: in every reachable state the active Pose Mode is exactly one of
\* the five identifiers (enquadramento before the first key is polled), so
\* the verdict is never the 'mode not implemented' fallback.
C17_ModeAlwaysImplemented ==
    /\ pose_mode \in MODE_NAMES
    /\ Cardinality(MODE_NAMES) = 5
    /\ pc \in {"start", "setup"} => pose_mode = "enquadramento"
    /\ pose_quality # NotImplemented(pose_mode)
    /\ pose_quality.tail # "' ainda nao implementado"

\* C17 witness: a frame evaluated in most_muscular mode, selected with '5',
\* with a pass/fail verdict.
C17_MostMuscularEvaluated ==
    /\ pc = "render"
    /\ key = KEY_5
    /\ pose_mode = "most_muscular"
    /\ detection.detected
    /\ pose_quality.head = "Posicao incorreta - "

\* The panels of the user interface.
Panels == {"info", "instructions", "feedback", "sidebar"}

\* C18: once the panels of an iteration are rendered, the feedback panel is
\* among them exactly when a verdict was produced for the frame; when pose
\* estimation returned no landmarks there is no verdict, no skeleton and
\* no feedback panel, while the info panel, the instructions panel and the
\* sidebar are rendered.
C18_FeedbackIffVerdict ==
    pc = "show" =>
        /\ "feedback" \in drawn <=> pose_quality # None
        /\ ~detection.detected =>
              /\ pose_quality = None
              /\ drawn = {"info", "instructions", "sidebar"}

\* C18 witness: panels rendered for a frame without landmarks.
C18_NoLandmarksNoFeedback ==
    /\ pc = "show"
    /\ ~detection.detected
    /\ "feedback" \notin drawn
    /\ "skeleton" \notin drawn
    /\ "sidebar" \in drawn

\* One step of the loop keeps the order of the stages.
StageOrder ==
    /\ pc = "read" /\ pc' # "read" /\ ~ReadFailed(last_read')
          => pc' = "resize"
    /\ pc = "resize" => pc' \in {"process", "raised"}
    /\ pc = "process" => pc' = "render"
    /\ pc = "render" => pc' = "show"
    /\ pc = "show" => pc' = "check_window"
    /\ pc = "check_window" => pc' \in {"poll_key", "cleanup"}
    /\ pc = "poll_key" => pc' \in {"loop_top", "cleanup"}
    /\ pc' = "read" => pc = "loop_top"

\* A panel is drawn only in the rendering stage, after the evaluation of
\* the frame in hand.
DrawnAfterEvaluation ==
    (drawn' \cap Panels) # (drawn \cap Panels) /\ drawn' # {}
        => /\ pc = "render"
           /\ pose_quality =
                  process_frame(detection, pose_mode, layout.new_width,
                                layout.new_height).pose_quality

\* A frame is read only when the frame read before it, if any, has been
\* displayed.
ReadAfterDisplay ==
    pc = "read" /\ pc' # "read" /\ last_read = "ok" => "display" \in drawn

\* C19: within one iteration with a successful read the stages occur in the
\* order read, resize, pose estimation and evaluation, UI rendering,
\* display, window-closed check, key poll; the UI of a frame is never drawn
\* before the evaluation of that frame has completed, and the next frame is
\* never read before the display call of the current frame has returned.
C19_StagesInOrder ==
    [][StageOrder /\ DrawnAfterEvaluation /\ ReadAfterDisplay]_vars

\* C19 witness: the next frame is about to be read after a frame with a
\* verdict was rendered and displayed.
C19_NextReadAfterDisplay ==
    /\ pc = "read"
    /\ last_read = "ok"
    /\ drawn = {"skeleton", "info", "instructions", "feedback", "sidebar",
                "display"}

----------------------------------------------------------------------------
(* Claims about the letterbox size, checked under SpecLetterbox *)

\* The exact scaled size, truncated: the height for a frame fitted by width
\* and the width for a frame fitted by height.
ScaledHeight == (fn_in.camera_display_width * fn_in.frame_h) \div fn_in.frame_w
ScaledWidth == (fn_in.camera_display_height * fn_in.frame_w) \div fn_in.frame_h

HeightIsExact ==
    (fn_in.camera_display_width * fn_in.frame_h) % fn_in.frame_w = 0
WidthIsExact ==
    (fn_in.camera_display_height * fn_in.frame_w) % fn_in.frame_h = 0

WithinViewport ==
    /\ fn_out.box.new_width <= fn_in.camera_display_width
    /\ fn_out.box.new_height <= fn_in.camera_display_height

\* C9 as stated: the display size never exceeds the viewport, equals it in
\* at least one dimension, and the other dimension is the truncated scaled
\* value.
C9_LetterboxTruncated ==
    (fn_in.fn = "letterbox" /\ fn_out.done) =>
        /\ WithinViewport
        /\ \/ /\ fn_out.box.new_width = fn_in.camera_display_width
              /\ fn_out.box.new_height = ScaledHeight
           \/ /\ fn_out.box.new_height = fn_in.camera_display_height
              /\ fn_out.box.new_width = ScaledWidth

\* C9 amended: the display size never exceeds the viewport, equals it in at
\* least one dimension, and the other dimension is the truncated scaled
\* value or, when the exact scaled value is an integer, possibly one less
\* than it.
C9_LetterboxTruncatedOrOneLess ==
    (fn_in.fn = "letterbox" /\ fn_out.done) =>
        /\ WithinViewport
        /\ \/ /\ fn_out.box.new_width = fn_in.camera_display_width
              /\ \/ fn_out.box.new_height = ScaledHeight
                 \/ /\ HeightIsExact
                    /\ fn_out.box.new_height = ScaledHeight - 1
           \/ /\ fn_out.box.new_height = fn_in.camera_display_height
              /\ \/ fn_out.box.new_width = ScaledWidth
                 \/ /\ WidthIsExact
                    /\ fn_out.box.new_width = ScaledWidth - 1

\* C9 witness: a frame wider than the viewport is fitted by width and its
\* height is one less than the exact scaled height.
C9_FittedByWidthOneLess ==
    /\ fn_in.fn = "letterbox"
    /\ fn_out.done
    /\ fn_in.frame_w * fn_in.camera_display_height >
           fn_in.camera_display_width * fn_in.frame_h
    /\ fn_out.box.new_width = fn_in.camera_display_width
    /\ HeightIsExact
    /\ fn_out.box.new_height = ScaledHeight - 1

----------------------------------------------------------------------------
(* Claims about evaluate_double_biceps, checked under SpecDoubleBiceps *)

\* The four reasons in the order the evaluator reports them.
DoubleBicepsReasons ==
    <<"Cotovelo esquerdo muito baixo",
      "Cotovelo direito muito baixo",
      "Angulo do braco esquerdo fora do intervalo (30-80 graus)",
      "Angulo do braco direito fora do intervalo (30-80 graus)">>

\* Which of the four conditions the arguments violate.
DoubleBicepsViolated ==
    <<fn_in.left_elbow_height > fn_in.left_shoulder_height,
      fn_in.right_elbow_height > fn_in.right_shoulder_height,
      fn_in.left_angle < 30 * AngleScale \/ fn_in.left_angle > 80 * AngleScale,
      fn_in.right_angle < 30 * AngleScale \/
          fn_in.right_angle > 80 * AngleScale>>

\* The positions of r in the sequence reasons.
Positions(reasons, r) == {i \in 1..Len(reasons) : reasons[i] = r}

\* C10: the praise is returned exactly when no condition is violated;
\* otherwise the verdict is 'Posicao incorreta' with exactly one reason per
\* violated condition and none for the others, in the order left elbow,
\* right elbow, left angle, right angle.
C10_DoubleBicepsVerdict ==
    (fn_in.fn = "evaluate_double_biceps" /\ fn_out.done) =>
        LET v == fn_out.verdict
            none == \A i \in 1..4 : ~DoubleBicepsViolated[i]
        IN  /\ v.head = "Posicao correta - Excelente postura!" <=> none
            /\ ~none => v.head = "Posicao incorreta - "
            /\ \A i \in 1..4 :
                  Cardinality(Positions(v.reasons, DoubleBicepsReasons[i])) =
                      IF DoubleBicepsViolated[i] THEN 1 ELSE 0
            /\ \A i \in 1..Len(v.reasons) :
                  \E j \in 1..4 : v.reasons[i] = DoubleBicepsReasons[j]
            /\ \A i, j \in 1..4 :
                  \A p \in Positions(v.reasons, DoubleBicepsReasons[i]) :
                     \A q \in Positions(v.reasons, DoubleBicepsReasons[j]) :
                        i < j => p < q

\* C10 witness: angles of exactly 30 and 80 degrees with both elbows not
\* below the shoulders are praised.
C10_BoundaryAnglesPraised ==
    /\ fn_in.fn = "evaluate_double_biceps"
    /\ fn_out.done
    /\ fn_in.left_angle = 30 * AngleScale
    /\ fn_in.right_angle = 80 * AngleScale
    /\ fn_in.left_elbow_height = fn_in.left_shoulder_height
    /\ fn_out.verdict.head = "Posicao correta - Excelente postura!"
    /\ fn_out.verdict.reasons = <<>>


----------------------------------------------------------------------------
(* Claims about evaluate_centered, checked under SpecPure *)

CenteredDone == fn_in.fn = "evaluate_centered" /\ fn_out.done

WellCentered ==
    fn_out.verdict = Literal("Usuario bem centralizado na imagem.")

ReCenter ==
    fn_out.verdict =
        Literal("Centralize-se melhor na camera para avaliacao precisa.")

\* Twice the distance between the exact midpoint of the shoulders and the
\* exact centre width / 2.
TwiceExactOffset ==
    Abs(fn_in.shoulder_left_x + fn_in.shoulder_right_x - fn_in.width)

\* The distance between the midpoint and the centre after each was rounded
\* down to a whole pixel.
FlooredOffset ==
    Abs(fn_in.width \div 2 -
        (fn_in.shoulder_left_x + fn_in.shoulder_right_x) \div 2)

\* C13 as stated: the verdict is 'well centered' exactly when the distance
\* between the midpoint of the shoulders and width / 2 is less than 10% of
\* the width (5 * 2 * distance < width), and 're-center' otherwise.
C13_CenteredByExactOffset ==
    CenteredDone =>
        /\ WellCentered <=> 5 * TwiceExactOffset < fn_in.width
        /\ ReCenter <=> ~WellCentered

\* C13 amended: the verdict is 'well centered' exactly when the distance
\* between the midpoint rounded down and the centre rounded down is less
\* than 10% of the width, and 're-center' otherwise.
C13_CenteredByFlooredOffset ==
    CenteredDone =>
        /\ WellCentered <=> 10 * FlooredOffset < fn_in.width
        /\ ReCenter <=> ~WellCentered

\* C13 witness: an odd width whose exact centre is more than 10% away from
\* the shoulders' midpoint, yet the verdict is 'well centered'.
C13_OddWidthCentered ==
    /\ CenteredDone
    /\ fn_in.width % 2 = 1
    /\ 5 * TwiceExactOffset >= fn_in.width
    /\ FlooredOffset = 0
    /\ WellCentered


----------------------------------------------------------------------------
(* Claims about evaluate_most_muscular, checked under SpecPure *)

MostMuscularDone == fn_in.fn = "evaluate_most_muscular" /\ fn_out.done

\* The three reasons in the order the evaluator reports them.
MostMuscularReasons ==
    <<"Cotovelo esquerdo deve estar abaixo do ombro",
      "Cotovelo direito deve estar abaixo do ombro",
      "Bracos devem estar contraidos um contra o outro - aproxime as maos">>

\* Which of the three conditions the heights and the X coordinates violate;
\* no angle, knee angle, shoulder_width argument or torso alignment occurs.
MostMuscularViolated ==
    LET width == Abs(fn_in.right_shoulder_x - fn_in.left_shoulder_x)
        wrists == Abs(fn_in.left_wrist_x - fn_in.right_wrist_x)
    IN  <<~(fn_in.left_elbow_height - fn_in.left_shoulder_height > 10),
          ~(fn_in.right_elbow_height - fn_in.right_shoulder_height > 10),
          ~(width = 0 \/ 2 * wrists <= width)>>

\* C14: the praise is returned exactly when each elbow is more than 10
\* pixels below its shoulder and (the shoulder width is 0 or the wrist
\* distance is at most half of it); a wrist distance above half of a
\* positive shoulder width adds exactly the 'aproxime as maos' reason; the
\* verdict is fixed by the heights and X coordinates alone, whatever the arm
\* angles, knee angles and torso alignment are.
C14_MostMuscularVerdict ==
    MostMuscularDone =>
        LET v == fn_out.verdict
            none == \A i \in 1..3 : ~MostMuscularViolated[i]
        IN  /\ v = Correct("Posicao correta - Excelente most muscular!")
                  <=> none
            /\ ~none => v.head = "Posicao incorreta - " /\ v.tail = "."
            /\ \A i \in 1..3 :
                  Cardinality(Positions(v.reasons, MostMuscularReasons[i])) =
                      IF MostMuscularViolated[i] THEN 1 ELSE 0
            /\ \A i \in 1..Len(v.reasons) :
                  \E j \in 1..3 : v.reasons[i] = MostMuscularReasons[j]
            /\ \A i, j \in 1..3 :
                  \A p \in Positions(v.reasons, MostMuscularReasons[i]) :
                     \A q \in Positions(v.reasons, MostMuscularReasons[j]) :
                        i < j => p < q

\* C14 witness: wrists exactly half a positive shoulder width apart, both
\* elbows 11 pixels below the shoulders and a straight left arm (angle 0):
\* praised.
C14_HalfWidthPraised ==
    /\ MostMuscularDone
    /\ fn_in.right_shoulder_x = MaxShoulderGap
    /\ 2 * Abs(fn_in.left_wrist_x - fn_in.right_wrist_x) = MaxShoulderGap
    /\ fn_in.left_arm_angle = 0
    /\ fn_in.left_knee_angle = Deg(90)
    /\ fn_in.torso_alignment = 5
    /\ fn_out.verdict = Correct("Posicao correta - Excelente most muscular!")

----------------------------------------------------------------------------
(* Claims about calculate_angle, checked under SpecPure *)

AngleDone == fn_in.fn = "calculate_angle" /\ fn_out.done

\* The arm vectors ba and bc of the three points.
ArmBA == <<fn_in.a[1] - fn_in.b[1], fn_in.a[2] - fn_in.b[2]>>
ArmBC == <<fn_in.c[1] - fn_in.b[1], fn_in.c[2] - fn_in.b[2]>>

ArmZero == fn_in.a = fn_in.b \/ fn_in.b = fn_in.c
ArmsPerpendicular == ~ArmZero /\ ArmBA[1] * ArmBC[1] + ArmBA[2] * ArmBC[2] = 0
ArmsOpposite ==
    /\ ~ArmZero
    /\ ArmBA[1] * ArmBC[2] - ArmBA[2] * ArmBC[1] = 0
    /\ ArmBA[1] * ArmBC[1] + ArmBA[2] * ArmBC[2] < 0

\* What C16 states apart from the opposite directions: 0 for a zero-length
\* arm vector, no fault, a result within 0..180 degrees, 90 degrees for
\* perpendicular vectors.
AngleInRange ==
    /\ ArmZero => fn_out.angle = 0
    /\ fn_out.angle # MathDomainError
    /\ fn_out.angle \in 0..Deg(180)
    /\ ArmsPerpendicular => fn_out.angle = Deg(90)

\* C16 as stated: calculate_angle returns exactly 0 when a = b or b = c,
\* never faults, and otherwise returns a value in [0, 180]: 90 when the arm
\* vectors are perpendicular and 180 when they point in opposite directions.
C16_OppositeIsExactly180 ==
    AngleDone =>
        /\ AngleInRange
        /\ ArmsOpposite => fn_out.angle = Deg(180)

\* C16 amended: calculate_angle returns exactly 0 when a = b or b = c, never
\* faults, and otherwise returns a value in [0, 180]: 90 when the arm
\* vectors are perpendicular and, when they point in opposite directions,
\* 180 or a value a rounding error below 180.
C16_OppositeIsNear180 ==
    AngleDone =>
        /\ AngleInRange
        /\ ArmsOpposite => fn_out.angle \in {Deg(180) - 1, Deg(180)}

\* C16 witness: the arm vectors (1, 2) and (-1, -2) point in opposite
\* directions and the result is below 180 degrees.
C16_OppositeBelow180 ==
    /\ AngleDone
    /\ fn_in.a = <<1, 2>> /\ fn_in.b = <<0, 0>> /\ fn_in.c = <<0 - 1, 0 - 2>>
    /\ ArmsOpposite
    /\ fn_out.angle = Deg(180) - 1

----------------------------------------------------------------------------
(* Claims about _evaluate_pose and process_frame, checked under SpecPure *)

EvaluatePoseDone == fn_in.fn = "_evaluate_pose" /\ fn_out.done

Shoulders == {"LEFT_SHOULDER", "RIGHT_SHOULDER"}
Elbows == {"LEFT_ELBOW", "RIGHT_ELBOW"}
Wrists == {"LEFT_WRIST", "RIGHT_WRIST"}

\* The joints the evaluator of a Pose Mode requires, as C11 lists them.
RequiredBy(mode) ==
    CASE mode \in {"enquadramento", "side_chest"} -> Shoulders
      [] mode = "double_biceps" -> Elbows \cup Shoulders
      [] mode \in {"back_double_biceps", "most_muscular"} ->
             Elbows \cup Shoulders \cup Wrists

\* C11: for every Pose Mode and every Point Map that lacks a joint the
\* mode's evaluator requires, _evaluate_pose returns the fixed fallback
\* literal ('... os ombros' for side_chest, '... os pontos necessarios'
\* otherwise): it neither raises nor returns a pass/fail verdict.
C11_MissingJointsFallBack ==
    EvaluatePoseDone /\ fn_in.pose_mode \in MODE_NAMES
            /\ ~(RequiredBy(fn_in.pose_mode) \subseteq DOMAIN fn_in.points)
        => fn_out.verdict =
               IF fn_in.pose_mode = "side_chest"
                  THEN Literal("Nao foi possivel detectar os ombros")
                  ELSE Literal(
                         "Nao foi possivel detectar os pontos necessarios")

\* C11 witness: side_chest with the right shoulder missing returns the
\* shoulders literal.
C11_SideChestWithoutShoulder ==
    /\ EvaluatePoseDone
    /\ fn_in.pose_mode = "side_chest"
    /\ DOMAIN fn_in.points = EvaluatedJoints \ {"RIGHT_SHOULDER"}
    /\ fn_out.verdict = Literal("Nao foi possivel detectar os ombros")

ProcessFrameDone == fn_in.fn = "process_frame" /\ fn_out.done

\* C12 as stated: the Point Map that process_frame builds holds exactly the
\* joints whose own landmark can be read; a landmark that fails to be read
\* never removes a later joint whose landmark is readable.
C12_PointMapHoldsReadableJoints ==
    ProcessFrameDone /\ fn_in.results.detected
        => DOMAIN fn_out.result.points = fn_in.results.readable

SideChestDone ==
    /\ EvaluatePoseDone
    /\ fn_in.pose_mode = "side_chest"
    /\ Shoulders \subseteq DOMAIN fn_in.points

\* A Point Map of the two shoulders at X = l and X = r.
ShouldersAt(l, r) ==
    ("LEFT_SHOULDER" :> <<l, 0>>) @@ ("RIGHT_SHOULDER" :> <<r, 0>>)

\* Shoulder X positions: every pixel up to MaxX, and 100 and 300.
ShoulderXs == (0..MaxX) \cup {100, 300}

\* The verdict of side_chest for the arm and knee angles of one side.
SideChestOf(arm, elbow, shoulder, knee, other) ==
    evaluate_side_chest(arm, Get(fn_in.points, elbow)[2],
                        fn_in.points[shoulder][2], 0,
                        IF knee > 0 THEN knee ELSE Deg(170), other)

\* C15 as stated: in side_chest mode the side whose shoulder is nearer to
\* the midpoint of the shoulders is selected and that side's arm angle,
\* elbow height, shoulder height and knee angle are evaluated; there are
\* shoulder positions for which the left side is selected and positions
\* for which the right side is selected.
C15_BothSidesSelected ==
    /\ SideChestDone =>
          fn_out.verdict =
              IF LeftSideVisible(fn_in.points)
                 THEN SideChestOf(fn_in.angle_left, "LEFT_ELBOW",
                                  "LEFT_SHOULDER", fn_in.angle_left_knee,
                                  fn_in.angle_right)
                 ELSE SideChestOf(fn_in.angle_right, "RIGHT_ELBOW",
                                  "RIGHT_SHOULDER", fn_in.angle_right_knee,
                                  fn_in.angle_left)
    /\ \E l, r \in ShoulderXs : LeftSideVisible(ShouldersAt(l, r))
    /\ \E l, r \in ShoulderXs : ~LeftSideVisible(ShouldersAt(l, r))

----------------------------------------------------------------------------
(* Claims about render_sidebar_menu, checked under SpecPure *)

SidebarDone == fn_in.fn = "render_sidebar_menu" /\ fn_out.done

\* item_y of the entry idx (0..4)
ItemY(idx) ==
    fn_out.menu.start_y
        + idx * (fn_out.menu.item_height + fn_out.menu.item_spacing)

\* C20 as stated: for every window height h the bottom edge of the last of
\* the 5 entries is not below the top of the footer band, and no entry
\* overlaps the next one.
C20_EntriesFitAboveFooter ==
    SidebarDone =>
        /\ ItemY(4) + fn_out.menu.item_height <= fn_out.menu.footer_y
        /\ \A idx \in 0..3 :
              ItemY(idx) + fn_out.menu.item_height <= ItemY(idx + 1)

----------------------------------------------------------------------------
(* Claims about evaluate_back_double_biceps, checked under SpecPure *)

BackDoubleBicepsDone ==
    fn_in.fn = "evaluate_back_double_biceps" /\ fn_out.done

\* A verdict without reasons: the praise of an evaluator.
Passes(verdict) == verdict.reasons = <<>>

\* evaluate_double_biceps on the angles and heights of the back variant
FrontVerdict ==
    evaluate_double_biceps(
        fn_in.left_angle, fn_in.right_angle,
        fn_in.left_elbow_height, fn_in.right_elbow_height,
        fn_in.left_shoulder_height, fn_in.right_shoulder_height)

\* C23: evaluate_back_double_biceps passes for exactly the inputs for which
\* evaluate_double_biceps passes, and gives as many reasons; its verdict is
\* the same for every x of the shoulders and every height of the wrists.
C23_BackSameAsFront ==
    BackDoubleBicepsDone =>
        /\ Passes(fn_out.verdict) <=> Passes(FrontVerdict)
        /\ Len(fn_out.verdict.reasons) = Len(FrontVerdict.reasons)
        /\ \A lx \in BackShoulderXs, rx \in BackShoulderXs,
              lw \in BackWristHeights, rw \in BackWristHeights :
              evaluate_back_double_biceps(
                  fn_in.left_angle, fn_in.right_angle,
                  fn_in.left_elbow_height, fn_in.right_elbow_height,
                  fn_in.left_shoulder_height, fn_in.right_shoulder_height,
                  lx, rx, lw, rw) = fn_out.verdict

\* C23 witness: a praise of the back variant with the wrists below the
\* elbows and the shoulders apart.
C23_BackPraisedWristsLow ==
    /\ BackDoubleBicepsDone
    /\ Passes(fn_out.verdict)
    /\ fn_in.left_wrist_height > fn_in.left_elbow_height
    /\ fn_in.right_wrist_height > fn_in.right_elbow_height
    /\ fn_in.left_shoulder_x # fn_in.right_shoulder_x

----------------------------------------------------------------------------
(* Claims about render_pose_skeleton, checked under SpecPure *)

SkeletonDone == fn_in.fn = "render_pose_skeleton" /\ fn_out.done

ArmJoints(side) ==
    {JointOf(side, "SHOULDER"), JointOf(side, "ELBOW"), JointOf(side, "WRIST")}

LegJoints(side) ==
    {JointOf(side, "HIP"), JointOf(side, "KNEE"), JointOf(side, "ANKLE")}

\* C22: a leg line of a side is drawn only in the modes side_chest and
\* most_muscular and only when hip, knee and ankle of that side are in the
\* Point Map; an arm line of a side is drawn only when its shoulder, elbow
\* and wrist are in the Point Map; no other line is drawn.
C22_LimbsDrawnWhenComplete ==
    SkeletonDone =>
        /\ \A side \in Sides :
              /\ LegLines(side) \cap fn_out.lines # {} =>
                    /\ fn_in.pose_mode \in {"side_chest", "most_muscular"}
                    /\ LegJoints(side) \subseteq DOMAIN fn_in.points
              /\ ArmLines(side) \cap fn_out.lines # {} =>
                    ArmJoints(side) \subseteq DOMAIN fn_in.points
        /\ fn_out.lines \subseteq
               UNION {ArmLines(side) \cup LegLines(side) : side \in Sides}

\* C22 witness: in side_chest the left leg is drawn, the right leg, whose
\* ankle is missing, is not, and neither is the left arm without its wrist.
C22_OneLegOneArmDrawn ==
    /\ SkeletonDone
    /\ fn_in.pose_mode = "side_chest"
    /\ DOMAIN fn_in.points = Joints \ {"RIGHT_ANKLE", "LEFT_WRIST"}
    /\ fn_out.lines = LegLines("LEFT") \cup ArmLines("RIGHT")

----------------------------------------------------------------------------
(* Claims about the joints behind a praise, checked under SpecPure *)

\* The verdicts that begin with "Posicao correta".
Praises ==
    {Correct("Posicao correta - Excelente postura!"),
     Correct("Posicao correta - Excelente duplo biceps de costas!"),
     Correct("Posicao correta - Excelente side chest!"),
     Correct("Posicao correta - Excelente most muscular!")}

\* The joints of the arm angles the evaluator of the mode is given: both
\* arms, or in side_chest the arm of the selected side.
AngleJoints(mode, points) ==
    IF mode = "enquadramento" THEN {}
    ELSE IF mode = "side_chest"
        THEN (IF ~Has(points, Shoulders) THEN {}
              ELSE IF LeftSideVisible(points) THEN ArmJoints("LEFT")
              ELSE ArmJoints("RIGHT"))
    ELSE ArmJoints("LEFT") \cup ArmJoints("RIGHT")

\* C30: a verdict of process_frame that begins with "Posicao correta" is
\* based on arm angles whose three joints are all in the Point Map: no
\* angle behind a praise was computed with the substitute (0, 0).
C30_PraiseOnlyOnDetectedJoints ==
    (ProcessFrameDone /\ fn_out.result.pose_quality \in Praises) =>
        AngleJoints(fn_in.pose_mode, fn_out.result.points)
            \subseteq DOMAIN fn_out.result.points

----------------------------------------------------------------------------
(* Claims about the layout, the sidebar and failed reads of the main loop,
   checked under Spec *)

\* C26: once an iteration has computed its layout, the sidebar is at least
\* 300 wide, sidebar and camera viewport add up to the window width, the
\* viewport width is positive and so are both sizes passed to cv2.resize.
C26_ViewportPositive ==
    layout # NoLayout =>
        /\ layout.sidebar_width >= 300
        /\ layout.sidebar_width + layout.camera_display_width
              = layout.window_width
        /\ layout.camera_display_width > 0
        /\ layout.new_width > 0
        /\ layout.new_height > 0

\* C27: on a displayed frame exactly one sidebar entry is drawn as
\* selected, the entry of the Pose Mode the frame was evaluated in, which
\* is the mode of its verdict; until the key poll after the display that
\* mode is the current Pose Mode, and a mode key leaves the frame in hand
\* as it is.
C27_SelectedEntryIsFrameMode ==
    "display" \in drawn =>
        /\ Cardinality(selected) = 1
        /\ \A idx \in selected : poses_info[idx] = frame_mode
        /\ pose_quality =
              process_frame(detection, frame_mode, layout.new_width,
                            layout.new_height).pose_quality
        /\ pc \in {"check_window", "poll_key"} => frame_mode = pose_mode

\* C27 witness: a mode key was pressed after side_chest was displayed; the
\* frame in hand still shows side_chest selected.
C27_KeyPressedAfterDisplay ==
    /\ "display" \in drawn
    /\ pc = "loop_top"
    /\ frame_mode = "side_chest"
    /\ selected = {4}
    /\ pose_mode = "most_muscular"

\* C28: an iteration whose read fails adds one to the failure counter and
\* goes back to the top of the loop, or leaves the loop on the failure
\* limit; it displays nothing, checks no window, polls no key and leaves
\* Pose Mode, fullscreen state, key and device handle as they are.
C28_FailedReadOnlyCounts ==
    [][(pc = "read" /\ last_read' \in {"ret_false", "frame_none"}) =>
          /\ frame_error_count' = frame_error_count + 1
          /\ pose_mode' = pose_mode
          /\ fullscreen' = fullscreen
          /\ key' = key
          /\ cap' = cap
          /\ calls'["imshow"] = calls["imshow"]
          /\ "display" \notin drawn'
          /\ \/ pc' = "loop_top" /\ exit_reason' = exit_reason
             \/ pc' = "cleanup" /\ exit_reason' = "errors"]_vars

\* C28 witness: a read failed in windowed side_chest mode and the loop is
\* back at its top with mode and window state as before.
C28_FailedReadInSideChest ==
    /\ pc = "loop_top"
    /\ last_read = "frame_none"
    /\ frame_error_count = 2
    /\ pose_mode = "side_chest"
    /\ ~fullscreen

----------------------------------------------------------------------------
(* Claims about render_feedback_panel, checked under SpecFeedback *)

FeedbackRunning ==
    fn_in.fn = "render_feedback_panel" /\ "lines" \in DOMAIN fn_out

FeedbackDone == fn_in.fn = "render_feedback_panel" /\ fn_out.done

\* C24: no line the wrap has emitted is longer than max_chars.
C24_LinesWithinBudget ==
    FeedbackRunning =>
        \A i \in 1..Len(fn_out.lines) :
            Len(fn_out.lines[i]) <= fn_out.max_chars

\* The verdicts in which the evaluator found no failure.
NoFailure == Praises \cup {Literal("Usuario bem centralizado na imagem.")}

\* C25: for every verdict of the five Pose Modes the panel is green exactly
\* when the evaluator found no failure: a praise or the well-centred
\* message; every other verdict makes it red.
C25_GreenIffNoFailure ==
    FeedbackDone =>
        \A v \in Verdicts :
            fn_in.pose_quality = Text(v) =>
                (fn_out.green <=> v \in NoFailure)

\* C25 witness: the well-centred message, which is no praise, is green.
C25_CenteredIsGreen ==
    /\ FeedbackDone
    /\ fn_in.pose_quality =
           Text(Literal("Usuario bem centralizado na imagem."))
    /\ fn_out.green

IsInk(c) == c \notin Whitespace

\* The characters of a text other than whitespace, in order.
Ink(text) == SelectSeq(text, IsInk)

RECURSIVE Flatten(_)
Flatten(lines) ==
    IF lines = <<>> THEN <<>> ELSE Head(lines) \o Flatten(Tail(lines))

\* The emitted lines and the text still to be wrapped hold the characters
\* of the verdict other than whitespace, in order, each once.
KeepsInk ==
    FeedbackRunning =>
        Ink(fn_in.pose_quality) =
            IF fn_out.done
               THEN Ink(Flatten(fn_out.lines))
               ELSE Ink(Flatten(fn_out.lines) \o fn_out.pose_quality_temp)

\* A pass of the loop leaves a shorter text to be wrapped.
PassShortens ==
    (FeedbackRunning /\ ~fn_out'.done) =>
        Len(fn_out'.pose_quality_temp) < Len(fn_out.pose_quality_temp)

\* C29: the wrap loop ends for every text and every max_chars >= 0, each
\* pass shortening the text left, and the lines hold every character of the
\* verdict other than whitespace, in order, none lost and none twice.
C29_WrapEndsAndKeepsText ==
    /\ []KeepsInk
    /\ [][PassShortens]_vars
    /\ <>FeedbackDone

\* C29 witness: a wrap with max_chars = 0 has ended with a line for each of
\* the five characters of the text and an empty last line.
C29_WrappedWithBudgetZero ==
    /\ FeedbackDone
    /\ fn_out.max_chars = 0
    /\ Len(fn_in.pose_quality) = 5
    /\ Len(fn_out.lines) = 6

----------------------------------------------------------------------------
(* Claims about the font cache, checked under SpecFont *)

\* An entry of the cache stays, with the font it holds.
CacheAppendOnly ==
    \A k \in DOMAIN _font_cache :
        k \in DOMAIN _font_cache' /\ _font_cache'[k] = _font_cache[k]

\* A call whose key is in the cache returns the font the cache holds.
CachedFontReturned ==
    text_call'.key \in DOMAIN _font_cache =>
        text_call'.font = _font_cache[text_call'.key]

\* A font was loaded once for each key in the cache and for no other key.
LoadedOnce ==
    \A k \in FontKeys :
        font_loads[k] = IF k \in DOMAIN _font_cache THEN 1 ELSE 0

\* C21: over any sequence of text calls a font is loaded at most once for a
\* key (font path, pixel size), an entry of the cache is never removed or
\* replaced, and a call with a key that is in the cache returns the font
\* object loaded for it.
C21_FontCacheAppendOnly ==
    /\ []LoadedOnce
    /\ [][CacheAppendOnly /\ CachedFontReturned]_vars

\* C21 witness: the cache holds fonts for two sizes of the memoized path
\* and the last call was a hit: it returned the font of the first load
\* without loading.
C21_SecondSizeCached ==
    /\ _cached_font_path = font_paths[4]
    /\ {<<font_paths[4], 10>>, <<font_paths[4], 24>>}
           \subseteq DOMAIN _font_cache
    /\ text_call.key = <<font_paths[4], 10>>
    /\ text_call.font = _font_cache[text_call.key]
    /\ text_call.fn = "get_text_size_utf8"
    /\ Cardinality(DOMAIN _font_cache) = 3

====
